---- MODULE Spec2Model ----
(***************************************************************************)
(* CMSIS-DAP over TCP: the single-client TCP server of cmsis_dap_tcp.c.    *)
(* The core is single threaded: cmsis_dap_tcp_process() is called once per *)
(* pass of the main loop and runs handle_server(), handle_client() and the *)
(* request pump to completion.  The peer and the network are the only      *)
(* other agents: they queue connections, deliver bytes and close.          *)
(***************************************************************************)
EXTENDS Integers, Sequences, FiniteSets, TLC

(***************************************************************************)
(* Program constants (cmsis_dap_tcp.h).                                    *)
(***************************************************************************)
DAP_PKT_HDR_SIGNATURE == 5259588      \* 0x00504144
DAP_PKT_TYPE_REQUEST  == 1
DAP_PKT_TYPE_RESPONSE == 2
CMSIS_DAP_PACKET_SIZE == 1024
LISTEN_BACKLOG        == 1            \* listen(server_sockfd, 1)
HDR_SIZE              == 8            \* sizeof(struct cmsis_dap_tcp_packet_hdr)
PACKET_BUF_SIZE       == CMSIS_DAP_PACKET_SIZE + HDR_SIZE

(***************************************************************************)
(* Bounds of the model.                                                    *)
(***************************************************************************)
MaxFd         == 1    \* accept() hands out descriptors 0..MaxFd
MaxPeers      == 2    \* peers that try to connect in one run
MaxMsgs       == 2    \* messages the peers send in one run
MaxPayloadLen == 2    \* longest payload of a well-formed request
MaxFaults     == 1    \* failed writes and oversized responses in one run

FDs == 0 .. MaxFd

\* The element of a one-element set.  The({e : x \in {v}}) is e with x
\* naming the value v.
The(S) == CHOOSE x \in S : TRUE

Min(a, b) == IF a < b THEN a ELSE b

(***************************************************************************)
(* Byte order helpers.  Multi-byte header fields are little endian on the  *)
(* wire; memory is a sequence of bytes.  A uint32_t is held as its two     *)
(* 16-bit halves, so that all 2^32 values can be told apart.                *)
(***************************************************************************)
U32(n) == [lo |-> n % 65536, hi |-> (n \div 65536) % 65536]

h_u16_to_le_swapped(a) == << (a \div 256) % 256, a % 256 >>
h_u16_to_le(a) == << a % 256, (a \div 256) % 256 >>
h_u32_to_le(a) == << a.lo % 256, (a.lo \div 256) % 256,
                     a.hi % 256, (a.hi \div 256) % 256 >>
le_to_h_u16_swapped(b) == 256 * b[1] + b[2]     \* the bytes the wrong way round
le_to_h_u16(b) == b[1] + 256 * b[2]
le_to_h_u32(b) == [lo |-> b[1] + 256 * b[2], hi |-> b[3] + 256 * b[4]]

\* struct cmsis_dap_tcp_packet_hdr laid out in memory (8 bytes, no padding).
PacketHdr(signature, length, packet_type, reserved) ==
    h_u32_to_le(U32(signature)) \o h_u16_to_le(length % 65536)
        \o << packet_type % 256, reserved % 256 >>

hdr_signature(h)   == le_to_h_u32(SubSeq(h, 1, 4))
hdr_length(h)      == le_to_h_u16(SubSeq(h, 5, 6))
hdr_packet_type(h) == h[7]
hdr_reserved(h)    == h[8]

\* A copy that leaves nothing of what the buffer held.
Memcpy_clearing(buf, data) == data

\* memcpy(buf, data, Len(data)): the bytes of buf after the copy keep their
\* old values.  A buffer is held as the prefix that was ever written; the
\* bytes after it are still the zeroes of static initialisation.
Memcpy(buf, data) == data \o SubSeq(buf, Len(data) + 1, Len(buf))

Zeros(n) == [i \in 1 .. n |-> 0]

(***************************************************************************)
(* errno values the code tests for, and the negated value it returns.      *)
(***************************************************************************)
Errno == [EINTR |-> 4, EAGAIN |-> 11, ECONNRESET |-> 104,
          ENOTCONN |-> 107, ETIMEDOUT |-> 110, EMFILE |-> 24]


(***************************************************************************)
(* The state the core's functions work on, as one record:                  *)
(*   client_sockfd  the static of that name (0: no client)                 *)
(*   open           descriptors of accepted sockets that are open          *)
(*   nonblock       accepted descriptors that were set O_NONBLOCK          *)
(*   backlog        peers waiting in the listen queue                      *)
(*   rxbuf          bytes the kernel holds unread for the client socket    *)
(*   peer_closed    the peer has closed its write side (FIN received)      *)
(*   request        the static request[] buffer                            *)
(*   diag           messages printed: connected / dropped / disconnected   *)
(*   outcomes       results of recv_dap_request in the current pass        *)
(*   trace          history of the connection: frames taken from the       *)
(*                  stream, commands run, writes made                      *)
(***************************************************************************)
Event(ev, r, data, took) == [ev |-> ev, ret |-> r, data |-> data, took |-> took]

\* ioctl(client_sockfd, FIONREAD): the number of unread bytes.  The ioctl
\* does not fail on an open socket, and client_sockfd is only ever an open one.
socket_available(s) ==
    IF s.client_sockfd = 0 THEN 0 ELSE Len(s.rxbuf)

\* What a non-blocking recv()/read() of len bytes returns on the client
\* socket: the bytes at hand; 0 at end of stream or for len = 0; else -1.
KernelRecv(s, len) ==
    IF len = 0 THEN [ret |-> 0, data |-> << >>]
    ELSE IF Len(s.rxbuf) > 0
        THEN [ret |-> Min(len, Len(s.rxbuf)),
              data |-> SubSeq(s.rxbuf, 1, Min(len, Len(s.rxbuf)))]
    ELSE IF s.peer_closed THEN [ret |-> 0, data |-> << >>]
    ELSE [ret |-> -1, data |-> << >>]

\* recv(client_sockfd, &x, 1, MSG_DONTWAIT|MSG_PEEK) with the faults the
\* environment injects first (errs), retried on EINTR.  A negative result
\* of the recv() itself is EAGAIN.
RECURSIVE socket_disconnected(_, _)
socket_disconnected(s, errs) ==
    IF errs = << >>
    THEN IF KernelRecv(s, 1).ret = 0 THEN 1 ELSE 0
    ELSE CASE Head(errs) = "EINTR"     -> socket_disconnected(s, Tail(errs))
           [] Head(errs) = "EAGAIN"    -> 0
           [] Head(errs) = "ETIMEDOUT" -> 0
           [] Head(errs) = "ENOTCONN"  -> 0
           [] OTHER                    -> 0 - Errno[Head(errs)]

\* handle_server() without the close() of a connection it drops.
handle_server_no_close(s, acc, fc) ==
    IF acc.ret < 0
    THEN IF acc.errno = "EAGAIN"
         THEN [s |-> s, ret |-> 0]
         ELSE [s |-> s, ret |-> acc.ret]
    ELSE LET a == [s EXCEPT !.backlog = @ - 1, !.open = @ \cup {acc.ret}]
         IN  IF s.client_sockfd # 0
             THEN [s |-> [a EXCEPT !.diag.dropped = @ + 1], ret |-> 0]
             ELSE LET b == [a EXCEPT !.client_sockfd = acc.ret,
                                     !.diag.connected = @ + 1,
                                     !.rxbuf = << >>,
                                     !.peer_closed = FALSE,
                                     !.trace = << >>]
                  IN  IF fc < 0
                      THEN [s |-> b, ret |-> -1]
                      ELSE [s |-> [b EXCEPT !.nonblock = @ \cup {acc.ret}],
                            ret |-> 0]

\* accept() handed in as acc: [ret |-> descriptor or -1, errno |-> name];
\* fc is the result of fcntl(F_SETFL, O_NONBLOCK) on the accepted socket.
handle_server(s, acc, fc) ==
    IF acc.ret < 0
    THEN IF acc.errno = "EAGAIN"
         THEN [s |-> s, ret |-> 0]
         ELSE [s |-> s, ret |-> acc.ret]
    ELSE LET a == [s EXCEPT !.backlog = @ - 1, !.open = @ \cup {acc.ret}]
         IN  IF s.client_sockfd # 0
             THEN [s |-> [a EXCEPT !.diag.dropped = @ + 1,
                                   !.open = @ \ {acc.ret}],
                   ret |-> 0]
             ELSE LET b == [a EXCEPT !.client_sockfd = acc.ret,
                                     !.diag.connected = @ + 1,
                                     !.rxbuf = << >>,
                                     !.peer_closed = FALSE,
                                     !.trace = << >>]
                  IN  IF fc < 0
                      THEN [s |-> b, ret |-> -1]
                      ELSE [s |-> [b EXCEPT !.nonblock = @ \cup {acc.ret}],
                            ret |-> 0]

\* handle_client() that closes only when the peek reports end of stream.
handle_client_eof_only(s, errs) ==
    IF s.client_sockfd = 0
    THEN [s |-> s, ret |-> 0]
    ELSE IF socket_disconnected(s, errs) = 1
         THEN [s |-> [s EXCEPT !.diag.disconnected = @ + 1,
                               !.open = @ \ {s.client_sockfd},
                               !.nonblock = @ \ {s.client_sockfd},
                               !.client_sockfd = 0,
                               !.rxbuf = << >>,
                               !.peer_closed = FALSE],
               ret |-> 0]
         ELSE [s |-> s, ret |-> 0]

\* handle_client() that also closes when the peek reports ENOTCONN.
handle_client_close_on_enotconn(s, errs) ==
    IF s.client_sockfd = 0
    THEN [s |-> s, ret |-> 0]
    ELSE IF socket_disconnected(s, errs) # 0 \/ errs = << "ENOTCONN" >>
         THEN [s |-> [s EXCEPT !.diag.disconnected = @ + 1,
                               !.open = @ \ {s.client_sockfd},
                               !.nonblock = @ \ {s.client_sockfd},
                               !.client_sockfd = 0,
                               !.rxbuf = << >>,
                               !.peer_closed = FALSE],
               ret |-> 0]
         ELSE [s |-> s, ret |-> 0]

\* handle_client() with a check that sees the peer's close behind unread
\* bytes.
handle_client_close_on_fin(s, errs) ==
    IF s.client_sockfd = 0
    THEN [s |-> s, ret |-> 0]
    ELSE IF s.peer_closed \/ socket_disconnected(s, errs) # 0
         THEN [s |-> [s EXCEPT !.diag.disconnected = @ + 1,
                               !.open = @ \ {s.client_sockfd},
                               !.nonblock = @ \ {s.client_sockfd},
                               !.client_sockfd = 0,
                               !.rxbuf = << >>,
                               !.peer_closed = FALSE],
               ret |-> 0]
         ELSE [s |-> s, ret |-> 0]

handle_client(s, errs) ==
    IF s.client_sockfd = 0
    THEN [s |-> s, ret |-> 0]
    ELSE IF socket_disconnected(s, errs) # 0
         THEN [s |-> [s EXCEPT !.diag.disconnected = @ + 1,
                               !.open = @ \ {s.client_sockfd},
                               !.nonblock = @ \ {s.client_sockfd},
                               !.client_sockfd = 0,
                               !.rxbuf = << >>,
                               !.peer_closed = FALSE],
               ret |-> 0]
         ELSE [s |-> s, ret |-> 0]

\* socket_read() that takes one byte more from the stream than it hands back.
socket_read_one_more(s, len) ==
    IF s.client_sockfd = 0
    THEN [s |-> s, ret |-> -1, data |-> << >>]
    ELSE The({
      [s |-> [s EXCEPT !.rxbuf = SubSeq(@, Len(k.data) + 2, Len(@))],
       ret |-> k.ret, data |-> k.data]
      : k \in {KernelRecv(s, len)} })

socket_read(s, len) ==
    IF s.client_sockfd = 0
    THEN [s |-> s, ret |-> -1, data |-> << >>]
    ELSE The({
      [s |-> [s EXCEPT !.rxbuf = SubSeq(@, Len(k.data) + 1, Len(@))],
       ret |-> k.ret, data |-> k.data]
      : k \in {KernelRecv(s, len)} })

socket_peek(s, len) ==
    IF s.client_sockfd = 0
    THEN [s |-> s, ret |-> -1, data |-> << >>]
    ELSE The({
      [s |-> s, ret |-> k.ret, data |-> k.data]
      : k \in {KernelRecv(s, len)} })

\* What write() returns for len bytes: wr is what the transport does with
\* them: "full" takes everything, "short" one byte less, "err" fails.
\* "block" is a write() that does not return: the socket is blocking and the
\* peer does not read.  The pass ends there, which the history records as a
\* "block" event; the value -1 only ends the evaluation.
KernelWrite(len, wr) ==
    CASE wr = "err"   -> -1
      [] wr = "short" -> len - 1
      [] OTHER        -> len

\* socket_write() without the test for a client.
socket_write_unguarded(s, data, len, wr) ==
    [s |-> [s EXCEPT !.trace = Append(@,
                Event("write", KernelWrite(len, wr), data, 0))],
     ret |-> KernelWrite(len, wr)]

\* write(client_sockfd, data, len).
socket_write(s, data, len, wr) ==
    IF s.client_sockfd = 0
    THEN [s |-> s, ret |-> -1]
    ELSE IF wr = "block"
    THEN [s |-> [s EXCEPT !.trace = Append(@, Event("block", 0, data, 0))],
          ret |-> -1]
    ELSE [s |-> [s EXCEPT !.trace = Append(@,
                    Event("write", KernelWrite(len, wr), data, 0))],
          ret |-> KernelWrite(len, wr)]

\* The call that led to state s has not returned: it sits in a write().
Blocked(s) == s.trace # << >> /\ s.trace[Len(s.trace)].ev = "block"

\* send_dap_response() that takes a short write for a full one.
send_dap_response_short_ok(s, buf, len, wr) ==
    IF len > PACKET_BUF_SIZE - HDR_SIZE
    THEN [s |-> s, ret |-> -1]
    ELSE The({
      IF w.ret < 0
      THEN [s |-> w.s, ret |-> w.ret]
      ELSE [s |-> w.s, ret |-> 0]
      : w \in {socket_write(s,
                   PacketHdr(DAP_PKT_HDR_SIGNATURE, len,
                             DAP_PKT_TYPE_RESPONSE, 0) \o SubSeq(buf, 1, len),
                   len + HDR_SIZE, wr)} })

\* send_dap_response() whose size test turns down one length too many.
send_dap_response_one_less(s, buf, len, wr) ==
    IF len >= PACKET_BUF_SIZE - HDR_SIZE
    THEN [s |-> s, ret |-> -1]
    ELSE The({
      IF w.ret < 0
      THEN [s |-> w.s, ret |-> w.ret]
      ELSE [s |-> w.s, ret |-> IF w.ret = len + HDR_SIZE THEN 0 ELSE -1]
      : w \in {socket_write(s,
                   PacketHdr(DAP_PKT_HDR_SIGNATURE, len,
                             DAP_PKT_TYPE_RESPONSE, 0) \o SubSeq(buf, 1, len),
                   len + HDR_SIZE, wr)} })

send_dap_response(s, buf, len, wr) ==
    IF len > PACKET_BUF_SIZE - HDR_SIZE
    THEN [s |-> s, ret |-> -1]
    ELSE The({
      IF w.ret < 0
      THEN [s |-> w.s, ret |-> w.ret]
      ELSE [s |-> w.s, ret |-> IF w.ret = len + HDR_SIZE THEN 0 ELSE -1]
      : w \in {socket_write(s,
                   PacketHdr(DAP_PKT_HDR_SIGNATURE, len,
                             DAP_PKT_TYPE_RESPONSE, 0) \o SubSeq(buf, 1, len),
                   len + HDR_SIZE, wr)} })

\* The request buffer used as a reassembly buffer: what is read is put
\* behind what the buffer holds from earlier calls.
ReadInto_behind(r) == [r.s EXCEPT !.request = @ \o r.data]

\* The state after socket_read(buf, ...) gave r: the bytes read are in the
\* request buffer.
ReadInto(r) == [r.s EXCEPT !.request = Memcpy(@, r.data)]

\* recv_dap_request() without the wait for the whole payload (the second
\* socket_available() test).
recv_dap_request_no_wait(s, len) ==
    IF socket_available(s) < HDR_SIZE
    THEN [s |-> s, ret |-> 0]
    ELSE The({
      IF pk.ret < 0 THEN [s |-> s, ret |-> pk.ret]
      ELSE IF pk.ret < HDR_SIZE THEN [s |-> s, ret |-> -1]
      ELSE IF hdr_signature(pk.data) # U32(DAP_PKT_HDR_SIGNATURE)
          THEN [s |-> socket_read(s, HDR_SIZE).s, ret |-> -1]
      ELSE IF hdr_packet_type(pk.data) # DAP_PKT_TYPE_REQUEST
          THEN [s |-> socket_read(s, HDR_SIZE).s, ret |-> -1]
      ELSE IF len < hdr_length(pk.data)
          THEN [s |-> s, ret |-> -1]
      ELSE The({
        IF r1.ret < 0 THEN [s |-> r1.s, ret |-> r1.ret]
        ELSE IF r1.ret < HDR_SIZE THEN [s |-> r1.s, ret |-> -1]
        ELSE The({
          IF r2.ret < 0 THEN [s |-> ReadInto(r2), ret |-> r2.ret]
          ELSE IF r2.ret < hdr_length(r1.data)
              THEN [s |-> ReadInto(r2), ret |-> -1]
          ELSE [s |-> ReadInto(r2), ret |-> r2.ret]
          : r2 \in {socket_read(r1.s, hdr_length(r1.data))} })
        : r1 \in {socket_read(s, HDR_SIZE)} })
      : pk \in {socket_peek(s, HDR_SIZE)} })

\* recv_dap_request() that leaves a header with a wrong signature in the
\* stream.
recv_dap_request_no_discard(s, len) ==
    IF socket_available(s) < HDR_SIZE
    THEN [s |-> s, ret |-> 0]
    ELSE The({
      IF pk.ret < 0 THEN [s |-> s, ret |-> pk.ret]
      ELSE IF pk.ret < HDR_SIZE THEN [s |-> s, ret |-> -1]
      ELSE IF hdr_signature(pk.data) # U32(DAP_PKT_HDR_SIGNATURE)
          THEN [s |-> s, ret |-> -1]
      ELSE IF hdr_packet_type(pk.data) # DAP_PKT_TYPE_REQUEST
          THEN [s |-> socket_read(s, HDR_SIZE).s, ret |-> -1]
      ELSE IF socket_available(s) < HDR_SIZE + hdr_length(pk.data)
          THEN [s |-> s, ret |-> 0]
      ELSE IF len < hdr_length(pk.data)
          THEN [s |-> s, ret |-> -1]
      ELSE The({
        IF r1.ret < 0 THEN [s |-> r1.s, ret |-> r1.ret]
        ELSE IF r1.ret < HDR_SIZE THEN [s |-> r1.s, ret |-> -1]
        ELSE The({
          IF r2.ret < 0 THEN [s |-> ReadInto(r2), ret |-> r2.ret]
          ELSE IF r2.ret < hdr_length(r1.data)
              THEN [s |-> ReadInto(r2), ret |-> -1]
          ELSE [s |-> ReadInto(r2), ret |-> r2.ret]
          : r2 \in {socket_read(r1.s, hdr_length(r1.data))} })
        : r1 \in {socket_read(s, HDR_SIZE)} })
      : pk \in {socket_peek(s, HDR_SIZE)} })

\* recv_dap_request() without the test of the length against the buffer.
recv_dap_request_no_limit(s, len) ==
    IF socket_available(s) < HDR_SIZE
    THEN [s |-> s, ret |-> 0]
    ELSE The({
      IF pk.ret < 0 THEN [s |-> s, ret |-> pk.ret]
      ELSE IF pk.ret < HDR_SIZE THEN [s |-> s, ret |-> -1]
      ELSE IF hdr_signature(pk.data) # U32(DAP_PKT_HDR_SIGNATURE)
          THEN [s |-> socket_read(s, HDR_SIZE).s, ret |-> -1]
      ELSE IF hdr_packet_type(pk.data) # DAP_PKT_TYPE_REQUEST
          THEN [s |-> socket_read(s, HDR_SIZE).s, ret |-> -1]
      ELSE IF socket_available(s) < HDR_SIZE + hdr_length(pk.data)
          THEN [s |-> s, ret |-> 0]
      ELSE The({
        IF r1.ret < 0 THEN [s |-> r1.s, ret |-> r1.ret]
        ELSE IF r1.ret < HDR_SIZE THEN [s |-> r1.s, ret |-> -1]
        ELSE The({
          IF r2.ret < 0 THEN [s |-> ReadInto(r2), ret |-> r2.ret]
          ELSE IF r2.ret < hdr_length(r1.data)
              THEN [s |-> ReadInto(r2), ret |-> -1]
          ELSE [s |-> ReadInto(r2), ret |-> r2.ret]
          : r2 \in {socket_read(r1.s, hdr_length(r1.data))} })
        : r1 \in {socket_read(s, HDR_SIZE)} })
      : pk \in {socket_peek(s, HDR_SIZE)} })

\* recv_dap_request() that leaves a header of the wrong type in the stream.
recv_dap_request_type_kept(s, len) ==
    IF socket_available(s) < HDR_SIZE
    THEN [s |-> s, ret |-> 0]
    ELSE The({
      IF pk.ret < 0 THEN [s |-> s, ret |-> pk.ret]
      ELSE IF pk.ret < HDR_SIZE THEN [s |-> s, ret |-> -1]
      ELSE IF hdr_signature(pk.data) # U32(DAP_PKT_HDR_SIGNATURE)
          THEN [s |-> socket_read(s, HDR_SIZE).s, ret |-> -1]
      ELSE IF hdr_packet_type(pk.data) # DAP_PKT_TYPE_REQUEST
          THEN [s |-> s, ret |-> -1]
      ELSE IF socket_available(s) < HDR_SIZE + hdr_length(pk.data)
          THEN [s |-> s, ret |-> 0]
      ELSE IF len < hdr_length(pk.data)
          THEN [s |-> s, ret |-> -1]
      ELSE The({
        IF r1.ret < 0 THEN [s |-> r1.s, ret |-> r1.ret]
        ELSE IF r1.ret < HDR_SIZE THEN [s |-> r1.s, ret |-> -1]
        ELSE The({
          IF r2.ret < 0 THEN [s |-> ReadInto(r2), ret |-> r2.ret]
          ELSE IF r2.ret < hdr_length(r1.data)
              THEN [s |-> ReadInto(r2), ret |-> -1]
          ELSE [s |-> ReadInto(r2), ret |-> r2.ret]
          : r2 \in {socket_read(r1.s, hdr_length(r1.data))} })
        : r1 \in {socket_read(s, HDR_SIZE)} })
      : pk \in {socket_peek(s, HDR_SIZE)} })

\* recv_dap_request() that turns down a header whose reserved byte is not 0.
recv_dap_request_reserved_checked(s, len) ==
    IF socket_available(s) < HDR_SIZE
    THEN [s |-> s, ret |-> 0]
    ELSE The({
      IF pk.ret < 0 THEN [s |-> s, ret |-> pk.ret]
      ELSE IF pk.ret < HDR_SIZE THEN [s |-> s, ret |-> -1]
      ELSE IF hdr_signature(pk.data) # U32(DAP_PKT_HDR_SIGNATURE)
          THEN [s |-> socket_read(s, HDR_SIZE).s, ret |-> -1]
      ELSE IF hdr_packet_type(pk.data) # DAP_PKT_TYPE_REQUEST
                  \/ hdr_reserved(pk.data) # 0
          THEN [s |-> socket_read(s, HDR_SIZE).s, ret |-> -1]
      ELSE IF socket_available(s) < HDR_SIZE + hdr_length(pk.data)
          THEN [s |-> s, ret |-> 0]
      ELSE IF len < hdr_length(pk.data)
          THEN [s |-> s, ret |-> -1]
      ELSE The({
        IF r1.ret < 0 THEN [s |-> r1.s, ret |-> r1.ret]
        ELSE IF r1.ret < HDR_SIZE THEN [s |-> r1.s, ret |-> -1]
        ELSE The({
          IF r2.ret < 0 THEN [s |-> ReadInto(r2), ret |-> r2.ret]
          ELSE IF r2.ret < hdr_length(r1.data)
              THEN [s |-> ReadInto(r2), ret |-> -1]
          ELSE [s |-> ReadInto(r2), ret |-> r2.ret]
          : r2 \in {socket_read(r1.s, hdr_length(r1.data))} })
        : r1 \in {socket_read(s, HDR_SIZE)} })
      : pk \in {socket_peek(s, HDR_SIZE)} })

\* recv_dap_request(request, len): the payload lands in s.request.  pk is the
\* peek of the header, r1 the read of the header, r2 the read of the payload.
recv_dap_request(s, len) ==
    IF socket_available(s) < HDR_SIZE
    THEN [s |-> s, ret |-> 0]
    ELSE The({
      IF pk.ret < 0 THEN [s |-> s, ret |-> pk.ret]
      ELSE IF pk.ret < HDR_SIZE THEN [s |-> s, ret |-> -1]
      ELSE IF hdr_signature(pk.data) # U32(DAP_PKT_HDR_SIGNATURE)
          THEN [s |-> socket_read(s, HDR_SIZE).s, ret |-> -1]
      ELSE IF hdr_packet_type(pk.data) # DAP_PKT_TYPE_REQUEST
          THEN [s |-> socket_read(s, HDR_SIZE).s, ret |-> -1]
      ELSE IF socket_available(s) < HDR_SIZE + hdr_length(pk.data)
          THEN [s |-> s, ret |-> 0]
      ELSE IF len < hdr_length(pk.data)
          THEN [s |-> s, ret |-> -1]
      ELSE The({
        IF r1.ret < 0 THEN [s |-> r1.s, ret |-> r1.ret]
        ELSE IF r1.ret < HDR_SIZE THEN [s |-> r1.s, ret |-> -1]
        ELSE The({
          IF r2.ret < 0 THEN [s |-> ReadInto(r2), ret |-> r2.ret]
          ELSE IF r2.ret < hdr_length(r1.data)
              THEN [s |-> ReadInto(r2), ret |-> -1]
          ELSE [s |-> ReadInto(r2), ret |-> r2.ret]
          : r2 \in {socket_read(r1.s, hdr_length(r1.data))} })
        : r1 \in {socket_read(s, HDR_SIZE)} })
      : pk \in {socket_peek(s, HDR_SIZE)} })

(***************************************************************************)
(* The command processor is outside the core.  It echoes the command id    *)
(* (request[0]) as the first response byte and reports                     *)
(* (request_len << 16) | response_len: two bytes, or with kind "oversize"  *)
(* one byte more than the response buffer holds.                           *)
(***************************************************************************)
DAP_ProcessCommand(request, kind) ==
    [ret |-> IF kind = "oversize"
             THEN 1 * 65536 + CMSIS_DAP_PACKET_SIZE + 1
             ELSE 1 * 65536 + 2,
     response |-> << IF Len(request) = 0 THEN 0 ELSE request[1], 0 >>]

\* One input of the pump: the iteration `at` of the loop meets `kind`
\* ("oversize": the command's response; "short", "err": the write).
KindAt(sp, i) == IF sp.at = i THEN sp.kind ELSE "ok"

\* The history after recv_dap_request() gave r in state s: its result, and
\* what it took from the stream if it took anything.
LogRecv(s, r) ==
    [r.s EXCEPT
       !.outcomes = Append(@, r.ret),
       !.trace = IF Len(s.rxbuf) > Len(r.s.rxbuf)
                 THEN Append(@, Event("recv", r.ret,
                                      SubSeq(r.s.request, 1, r.ret),
                                      Len(s.rxbuf) - Len(r.s.rxbuf)))
                 ELSE @]

\* The history after DAP_ProcessCommand() gave c: the response length it
\* reported and the response bytes (none if the length is beyond them).
LogCmd(s, c) ==
    [s EXCEPT !.trace = Append(@,
        Event("cmd", c.ret % 65536,
              IF c.ret % 65536 > Len(c.response) THEN << >>
              ELSE SubSeq(c.response, 1, c.ret % 65536),
              0))]

\* process_dap_requests(); i counts the iterations of while(true); r is the
\* result of recv_dap_request(), c of DAP_ProcessCommand(), w of
\* send_dap_response() with response_len = c.ret & 0xFFFF.
RECURSIVE process_dap_requests(_, _, _)
process_dap_requests(s, sp, i) ==
    The({
      IF r.ret <= 0
      THEN [s |-> LogRecv(s, r), ret |-> r.ret]
      ELSE The({
        The({
          IF w.ret < 0
          THEN [s |-> w.s, ret |-> w.ret]
          ELSE process_dap_requests(w.s, sp, i + 1)
          : w \in {send_dap_response(LogCmd(LogRecv(s, r), c), c.response,
                                     c.ret % 65536, KindAt(sp, i))} })
        : c \in {DAP_ProcessCommand(r.s.request, KindAt(sp, i))} })
      : r \in {recv_dap_request(s, CMSIS_DAP_PACKET_SIZE)} })

\* start_server() without the test of what listen() returned.
start_server_listen_unchecked(so) ==
    IF so.socket < 0
    THEN [server_sockfd |-> so.socket, listening |-> FALSE, ret |-> -1]
    ELSE IF so.bind # 0
    THEN [server_sockfd |-> so.socket, listening |-> FALSE, ret |-> -1]
    ELSE IF so.fcntl < 0
    THEN [server_sockfd |-> so.socket, listening |-> FALSE, ret |-> -1]
    ELSE [server_sockfd |-> so.socket, listening |-> so.listen >= 0,
          ret |-> 0]

\* start_server(port); so gives the results of socket(), bind(), fcntl() and
\* listen().  The socket listens only if all four succeed.
start_server(so) ==
    IF so.socket < 0
    THEN [server_sockfd |-> so.socket, listening |-> FALSE, ret |-> -1]
    ELSE IF so.bind # 0
    THEN [server_sockfd |-> so.socket, listening |-> FALSE, ret |-> -1]
    ELSE IF so.fcntl < 0
    THEN [server_sockfd |-> so.socket, listening |-> FALSE, ret |-> -1]
    ELSE IF so.listen < 0
    THEN [server_sockfd |-> so.socket, listening |-> FALSE, ret |-> -1]
    ELSE [server_sockfd |-> so.socket, listening |-> TRUE, ret |-> 0]

cmsis_dap_tcp_init(so) == start_server(so)

\* cmsis_dap_tcp_process() that closes the connection when the pump fails.
cmsis_dap_tcp_process_close_on_error(s, in) ==
    The({
      IF b.client_sockfd # 0
      THEN The({
        IF p.ret < 0
        THEN [s |-> [p.s EXCEPT !.diag.disconnected = @ + 1,
                                !.open = @ \ {b.client_sockfd},
                                !.nonblock = @ \ {b.client_sockfd},
                                !.client_sockfd = 0,
                                !.rxbuf = << >>,
                                !.peer_closed = FALSE],
              ret |-> p.ret]
        ELSE p
        : p \in {process_dap_requests(b, in.sp, 1)} })
      ELSE [s |-> b, ret |-> 0]
      : b \in {handle_client(
                  handle_server([s EXCEPT !.outcomes = << >>],
                                in.acc, in.fc).s,
                  in.pk).s} })

\* cmsis_dap_tcp_process() with handle_client() called before handle_server().
cmsis_dap_tcp_process_client_first(s, in) ==
    The({
      IF b.client_sockfd # 0
      THEN process_dap_requests(b, in.sp, 1)
      ELSE [s |-> b, ret |-> 0]
      : b \in {handle_server(
                  handle_client([s EXCEPT !.outcomes = << >>], in.pk).s,
                  in.acc, in.fc).s} })

\* cmsis_dap_tcp_process(); the results of handle_server() and
\* handle_client() are not looked at.  b is the state after the two.
cmsis_dap_tcp_process(s, in) ==
    The({
      IF b.client_sockfd # 0
      THEN process_dap_requests(b, in.sp, 1)
      ELSE [s |-> b, ret |-> 0]
      : b \in {handle_client(
                  handle_server([s EXCEPT !.outcomes = << >>],
                                in.acc, in.fc).s,
                  in.pk).s} })

(***************************************************************************)
(* What a peer may send.  A message is described by its kind; MsgBytes     *)
(* gives its bytes on the wire.                                            *)
(***************************************************************************)
OversizeLen == 2000

\* The payloads peers send: every length up to MaxPayloadLen, and the longest
\* one the request buffer takes.  Payloads of different lengths differ in
\* their first byte, the command id.
PayloadOfLen(n) == [i \in 1 .. n |-> (16 * n + i) % 256]
Payloads == {PayloadOfLen(n) : n \in (0 .. MaxPayloadLen) \cup
                                     {CMSIS_DAP_PACKET_SIZE}}

Msg(kind, payload, reserved) ==
    [kind |-> kind, payload |-> payload, reserved |-> reserved]

\* A REQUEST frame as the client builds it.
RequestFrame(p, reserved) ==
    PacketHdr(DAP_PKT_HDR_SIGNATURE, Len(p), DAP_PKT_TYPE_REQUEST, reserved)
        \o p

\* Four bytes that are not the signature.
Garbage4 == << 222, 173, 190, 239 >>

MsgBytes(m) ==
    CASE m.kind = "req"      -> RequestFrame(m.payload, m.reserved)
      [] m.kind = "garbage4" -> Garbage4
      [] m.kind = "garbage8" -> Garbage4 \o Garbage4
      [] m.kind = "badtype"  -> PacketHdr(DAP_PKT_HDR_SIGNATURE,
                                    Len(m.payload), DAP_PKT_TYPE_RESPONSE,
                                    m.reserved) \o m.payload
      [] m.kind = "oversize" -> PacketHdr(DAP_PKT_HDR_SIGNATURE, OversizeLen,
                                    DAP_PKT_TYPE_REQUEST, m.reserved)
                                    \o Zeros(OversizeLen)
      [] m.kind = "truncated" -> PacketHdr(DAP_PKT_HDR_SIGNATURE,
                                    Len(m.payload), DAP_PKT_TYPE_REQUEST,
                                    m.reserved)
                                    \o SubSeq(m.payload, 1, Len(m.payload) - 1)

ValidReqs == {Msg("req", p, 0) : p \in Payloads}
ShortReqs == {m \in ValidReqs : Len(m.payload) <= MaxPayloadLen}

\* The bytes of a sequence of messages, as one stream.
RECURSIVE Stream(_)
Stream(ms) ==
    IF ms = << >> THEN << >> ELSE MsgBytes(Head(ms)) \o Stream(Tail(ms))

(***************************************************************************)
(* State.                                                                  *)
(***************************************************************************)
VARIABLES
    pc,             \* "boot" before cmsis_dap_tcp_init(), then "run";
                    \* "blocked" once a pass sits in a write()
    server_sockfd, listening,
    client_sockfd, open, nonblock, backlog, rxbuf, peer_closed,
    request, diag, outcomes, trace,
    ret,            \* what the last call of cmsis_dap_tcp_process() returned
    wire,           \* bytes the peer has sent that have not arrived yet
    sent,           \* messages the peer has sent on this connection
    npeers,         \* peers that have tried to connect
    nmsgs,          \* messages sent by all peers
    nfaults,        \* failed writes and oversized responses so far
    catalog         \* the messages peers choose from


\* uart_bridge_task(): its locals, and what the kernel holds for it.
VARIABLES
    task,           \* "setup" before the select() loop, "loop" in it,
                    \* "deleted" after vTaskDelete()
    listen_fd, client_fd, uart_fd,
    fds,            \* descriptors the task holds open
    pending,        \* connections waiting on the listening socket
    inbound,        \* bytes of the client not read yet
    hung_up,        \* the client's peer has closed
    uart_rx,        \* bytes the UART has received that are not read yet
    last,           \* what the last iteration of the loop did
    gone            \* a disconnect of a client has been handled

bridge_vars == << task, listen_fd, client_fd, uart_fd, fds, pending, inbound,
                  hung_up, uart_rx, last, gone >>

\* Nothing done in an iteration.
Quiet == [accepted |-> -1, client |-> FALSE, dropped |-> FALSE,
          open_failed |-> FALSE, disconnected |-> FALSE, restart |-> FALSE]

\* uart_bridge_task() before its first statement.
BridgeInit ==
    /\ task = "setup"
    /\ listen_fd = -1 /\ client_fd = -1 /\ uart_fd = -1
    /\ fds = {} /\ pending = 0
    /\ inbound = 0 /\ hung_up = FALSE /\ uart_rx = 0
    /\ last = Quiet /\ gone = FALSE

vars == << pc, server_sockfd, listening, client_sockfd, open, nonblock,
           backlog, rxbuf, peer_closed, request, diag, outcomes, trace,
           ret, wire, sent, npeers, nmsgs, nfaults,
                    catalog, bridge_vars >>

Cur == [client_sockfd |-> client_sockfd, open |-> open, nonblock |-> nonblock,
        backlog |-> backlog, rxbuf |-> rxbuf, peer_closed |-> peer_closed,
        request |-> request, diag |-> diag, outcomes |-> outcomes,
        trace |-> trace]

InitWith(c) ==
    /\ pc = "boot"
    /\ server_sockfd = 0 /\ listening = FALSE
    /\ client_sockfd = 0 /\ open = {} /\ nonblock = {} /\ backlog = 0
    /\ rxbuf = << >> /\ peer_closed = FALSE
    /\ request = << >>
    /\ diag = [connected |-> 0, dropped |-> 0, disconnected |-> 0]
    /\ outcomes = << >> /\ trace = << >>
    /\ ret = 0
    /\ wire = << >> /\ sent = << >> /\ npeers = 0
    /\ nmsgs = 0 /\ nfaults = 0
    /\ catalog = c
    /\ BridgeInit

Init == InitWith(ValidReqs)

(***************************************************************************)
(* setup(): cmsis_dap_tcp_init(CMSIS_DAP_TCP_PORT), result not looked at.  *)
(***************************************************************************)
SocketResults == [socket : {MaxFd + 1, -1}, bind : {0, -1},
                  fcntl : {0, -1}, listen : {0, -1}]

Boot ==
    /\ pc = "boot"
    /\ \E so \in SocketResults :
       \E r \in {cmsis_dap_tcp_init(so)} :
              /\ server_sockfd' = r.server_sockfd
              /\ listening' = r.listening
    /\ pc' = "run"
    /\ UNCHANGED << client_sockfd, open, nonblock, backlog, rxbuf,
                    peer_closed, request, diag, outcomes, trace, ret, wire,
                    sent, npeers, nmsgs, nfaults,
                    catalog, bridge_vars >>

(***************************************************************************)
(* loop(): one call of cmsis_dap_tcp_process().  The inputs are what the   *)
(* system calls of this pass return.                                       *)
(***************************************************************************)
AcceptErr(e) == [ret |-> -1, errno |-> e]

AcceptResults ==
    IF ~listening THEN {AcceptErr("EINVAL")}
    ELSE IF backlog = 0 THEN {AcceptErr("EAGAIN")}
    ELSE {[ret |-> fd, errno |-> "none"] :
              fd \in FDs \ (open \cup {server_sockfd})}
         \cup {AcceptErr("EMFILE")}

\* Errors recv() may report on a connection that the peer has not closed;
\* after the peer's FIN an empty queue reads as end of stream.  Queued bytes
\* are handed over before a pending error of the connection is reported, so
\* a reset is only seen on an empty queue.
PeekFaults ==
    IF peer_closed THEN {<< >>, << "EINTR" >>}
    ELSE {<< >>, << "EINTR", "ETIMEDOUT" >>, << "ENOTCONN" >>}
            \cup (IF rxbuf = << >> THEN {<< "ECONNRESET" >>} ELSE {})

NoFault == [at |-> 0, kind |-> "ok"]

\* A fault can only meet an iteration that has a non-empty frame to work on.
\* write() can only wait for the peer on a socket that is not non-blocking.
PumpInputs ==
    IF nfaults >= MaxFaults THEN {NoFault}
    ELSE {NoFault} \cup
         [at : 1 .. Min(Len(rxbuf) \div (HDR_SIZE + 1), MaxMsgs),
          kind : {"oversize", "short", "err"} \cup
                 (IF client_sockfd \in nonblock THEN {} ELSE {"block"})]

\* Whether the pass met its fault: the failed pass is the one that ends < 0
\* after a command was run.
FaultMet(r, sp) == sp.at > 0 /\ Len(r.s.outcomes) = sp.at /\ r.ret < 0
                      /\ r.s.outcomes[sp.at] > 0

\* The inputs of one pass.  fcntl() is only called on a socket that becomes
\* the client, and the peek only on a client.
TickInputs ==
    {in \in [acc : AcceptResults, fc : {0, -1},
             pk : IF client_sockfd # 0 THEN PeekFaults ELSE {<< >>},
             sp : PumpInputs] :
        in.fc = 0 \/ (in.acc.ret >= 0 /\ client_sockfd = 0)}

Tick ==
    /\ pc = "run"
    /\ \E in \in TickInputs :
       \E r \in {cmsis_dap_tcp_process(Cur, in)} :
              /\ client_sockfd' = r.s.client_sockfd
              /\ open' = r.s.open
              /\ nonblock' = r.s.nonblock
              /\ backlog' = r.s.backlog
              /\ rxbuf' = r.s.rxbuf
              /\ peer_closed' = r.s.peer_closed
              /\ request' = r.s.request
              /\ diag' = r.s.diag
              /\ outcomes' = r.s.outcomes
              /\ trace' = r.s.trace
              /\ ret' = IF Blocked(r.s) THEN ret ELSE r.ret
              /\ pc' = IF Blocked(r.s) THEN "blocked" ELSE pc
              /\ wire' = IF r.s.client_sockfd = client_sockfd
                         THEN wire ELSE << >>
              /\ sent' = IF r.s.client_sockfd = client_sockfd
                         THEN sent ELSE << >>
              /\ nfaults' = IF FaultMet(r, in.sp) THEN nfaults + 1
                            ELSE nfaults
    /\ UNCHANGED << server_sockfd, listening, npeers, nmsgs, catalog, bridge_vars >>

(***************************************************************************)
(* The peers and the network.                                              *)
(***************************************************************************)
PeerConnect ==
    /\ pc = "run" /\ listening
    /\ backlog < LISTEN_BACKLOG /\ npeers < MaxPeers
    /\ backlog' = backlog + 1
    /\ npeers' = npeers + 1
    /\ UNCHANGED << pc, server_sockfd, listening, client_sockfd, open,
                    nonblock, rxbuf, peer_closed, request, diag, outcomes,
                    trace, ret, wire, sent, nmsgs, nfaults,
                    catalog, bridge_vars >>

PeerSend ==
    /\ client_sockfd # 0 /\ ~peer_closed
    /\ wire = << >> /\ nmsgs < MaxMsgs
    /\ \E m \in catalog :
          /\ wire' = MsgBytes(m)
          /\ sent' = Append(sent, m)
    /\ nmsgs' = nmsgs + 1
    /\ UNCHANGED << pc, server_sockfd, listening, client_sockfd, open,
                    nonblock, backlog, rxbuf, peer_closed, request, diag,
                    outcomes, trace, ret, npeers, nfaults, catalog, bridge_vars >>

\* The network hands over the next segment of what the peer has sent: a
\* short message byte by byte or at once; a long one at once, all but its
\* last byte, or its header alone.
DeliverSizes ==
    IF Len(wire) <= HDR_SIZE + MaxPayloadLen
    THEN {1, Len(wire)}
    ELSE {Len(wire) - 1, Len(wire)}
             \cup (IF rxbuf = << >> THEN {HDR_SIZE} ELSE {})

Deliver ==
    /\ client_sockfd # 0 /\ wire # << >>
    /\ \E n \in DeliverSizes :
          /\ rxbuf' = rxbuf \o SubSeq(wire, 1, n)
          /\ wire' = SubSeq(wire, n + 1, Len(wire))
    /\ UNCHANGED << pc, server_sockfd, listening, client_sockfd, open,
                    nonblock, backlog, peer_closed, request, diag, outcomes,
                    trace, ret, sent, npeers, nmsgs, nfaults,
                    catalog, bridge_vars >>

PeerClose ==
    /\ client_sockfd # 0 /\ ~peer_closed /\ wire = << >>
    /\ peer_closed' = TRUE
    /\ UNCHANGED << pc, server_sockfd, listening, client_sockfd, open,
                    nonblock, backlog, rxbuf, request, diag, outcomes, trace,
                    ret, wire, sent, npeers, nmsgs, nfaults,
                    catalog, bridge_vars >>

Next == Boot \/ Tick \/ PeerConnect \/ PeerSend \/ Deliver \/ PeerClose

Spec == Init /\ [][Next]_vars

\* Peers that also send bytes that are no frame.
InitGarbage ==
    InitWith(ShortReqs \cup {Msg("garbage4", << >>, 0),
                             Msg("garbage8", << >>, 0)})

SpecGarbage == InitGarbage /\ [][Next]_vars

\* Peers that also send a request longer than the request buffer.
InitOversize ==
    InitWith({Msg("oversize", << >>, 0), Msg("req", PayloadOfLen(1), 0)})

SpecOversize == InitOversize /\ [][Next]_vars

(***************************************************************************)
(* Properties.                                                             *)
(***************************************************************************)
\* What every pass the program can make from the current state ends in.
TickResults ==
    IF pc = "run"
    THEN {[in |-> in, r |-> cmsis_dap_tcp_process(Cur, in)] : in \in TickInputs}
    ELSE {}

Recvs(tr)  == SelectSeq(tr, LAMBDA e : e.ev = "recv")
Cmds(tr)   == SelectSeq(tr, LAMBDA e : e.ev = "cmd")
Writes(tr) == SelectSeq(tr, LAMBDA e : e.ev = "write")

\* The message of this connection whose bytes are next in the stream.
NextMsg == sent[Len(Recvs(trace)) + 1]

\* C1: with a connection active, every further connection handle_server()
\* accepts is closed in the same call, the call returns 0, and the active
\* descriptor and its unread bytes stay as they were; no accepted socket
\* other than the active one is ever held open (descriptor 0 aside, which
\* client_sockfd cannot name).
C1_SinglePeerExclusivity ==
    /\ \A fd \in open : fd = client_sockfd \/ fd = 0
    /\ client_sockfd # 0 => client_sockfd \in open
    /\ (pc = "run" /\ client_sockfd # 0) =>
          \A acc \in AcceptResults : \A fc \in {0, -1} :
             acc.ret >= 0 =>
                LET h == handle_server(Cur, acc, fc)
                IN  /\ h.ret = 0
                    /\ acc.ret \notin h.s.open
                    /\ h.s.open = open
                    /\ h.s.client_sockfd = client_sockfd
                    /\ h.s.rxbuf = rxbuf
                    /\ h.s.peer_closed = peer_closed
                    /\ h.s.diag.dropped = diag.dropped + 1

\* A second peer was dropped while the first connection, with unread bytes,
\* stayed.
C1_Witness ==
    /\ diag.connected = 1 /\ diag.disconnected = 0 /\ diag.dropped > 0
    /\ client_sockfd # 0 /\ rxbuf # << >>

\* C2: the payloads of the REQUEST frames a peer sends come out of
\* recv_dap_request() one by one, in order, each with its length and its
\* bytes, each taking header plus payload from the stream, however the bytes
\* arrived; nothing of the stream is lost in between; and once the whole of
\* the next frame is buffered, recv_dap_request() returns it.
C2_FramingRoundTrip ==
    client_sockfd # 0 =>
       LET rv == Recvs(trace)
       IN  /\ Len(rv) <= Len(sent)
           /\ \A k \in 1 .. Len(rv) :
                 /\ rv[k].ret = Len(sent[k].payload)
                 /\ rv[k].data = sent[k].payload
                 /\ rv[k].took = HDR_SIZE + Len(sent[k].payload)
           /\ rxbuf \o wire = Stream(SubSeq(sent, Len(rv) + 1, Len(sent)))
           /\ (Len(rv) < Len(sent) /\ Len(rxbuf) >= Len(MsgBytes(NextMsg))) =>
                 LET p == NextMsg.payload
                     r == recv_dap_request(Cur, CMSIS_DAP_PACKET_SIZE)
                 IN  /\ r.ret = Len(p)
                     /\ SubSeq(r.s.request, 1, Len(p)) = p
                     /\ r.s.rxbuf = SubSeq(rxbuf, HDR_SIZE + Len(p) + 1,
                                           Len(rxbuf))

\* The pass just made took the longest payload out of the stream.
C2_Witness ==
    /\ client_sockfd # 0 /\ Len(sent) = 1
    /\ Len(Recvs(trace)) = 1
    /\ Recvs(trace)[1].ret = CMSIS_DAP_PACKET_SIZE
    /\ Recvs(trace)[1].data = sent[1].payload
    /\ outcomes = << CMSIS_DAP_PACKET_SIZE, 0 >>
    /\ rxbuf = << >>

\* C3: while the frame a peer is sending has not arrived to its last byte,
\* recv_dap_request() returns 0 and changes nothing, and no call ever
\* reports an error on a stream of valid frames.
C3_PartialArrivalStability ==
    /\ \A k \in 1 .. Len(outcomes) : outcomes[k] >= 0
    /\ (client_sockfd # 0 /\ Len(Recvs(trace)) < Len(sent)
           /\ Len(rxbuf) < Len(MsgBytes(NextMsg))) =>
          recv_dap_request(Cur, CMSIS_DAP_PACKET_SIZE) = [s |-> Cur, ret |-> 0]

\* A pass ran when the header and one of two payload bytes had arrived.
C3_Witness ==
    /\ client_sockfd # 0 /\ Len(sent) = 1 /\ Len(sent[1].payload) = 2
    /\ rxbuf = SubSeq(MsgBytes(sent[1]), 1, HDR_SIZE + 1)
    /\ Len(wire) = 1
    /\ outcomes = << 0 >> /\ ret = 0

\* A write that took the whole frame, and the payload a frame carries.
FullWrites(tr) ==
    SelectSeq(tr, LAMBDA e : e.ev = "write" /\ e.ret = Len(e.data))
PayloadOf(frame) == SubSeq(frame, HDR_SIZE + 1, Len(frame))

\* Positions of the trace that hold a request taken from the stream.
RecvAt(tr) == {i \in 1 .. Len(tr) : tr[i].ev = "recv"}

\* C4: on a connection the k-th response frame transmitted carries the
\* command processor's output for the k-th request frame taken from the
\* stream, and between two requests taken from the stream the response to
\* the first is written.
C4_Ordering ==
    client_sockfd # 0 =>
       LET reqs == Recvs(trace)
           resp == FullWrites(trace)
       IN  /\ Len(resp) <= Len(reqs)
           /\ \A k \in 1 .. Len(resp) :
                 /\ reqs[k].ret > 0
                 /\ PayloadOf(resp[k].data)
                       = DAP_ProcessCommand(reqs[k].data, "ok").response
           /\ \A i \in RecvAt(trace) : \A j \in RecvAt(trace) :
                 i < j => \E w \in (i + 1) .. (j - 1) :
                             /\ trace[w].ev = "write"
                             /\ trace[w].ret = Len(trace[w].data)

\* Whether a complete, acceptable REQUEST frame is at the head of rx.
CompleteFrameAtHead(rx) ==
    /\ Len(rx) >= HDR_SIZE
    /\ hdr_signature(rx) = U32(DAP_PKT_HDR_SIGNATURE)
    /\ hdr_packet_type(rx) = DAP_PKT_TYPE_REQUEST
    /\ hdr_length(rx) <= CMSIS_DAP_PACKET_SIZE
    /\ Len(rx) >= HDR_SIZE + hdr_length(rx)

\* The payloads of the complete frames at the head of rx, in order.
RECURSIVE FramesAtHead(_)
FramesAtHead(rx) ==
    IF CompleteFrameAtHead(rx)
    THEN << SubSeq(rx, HDR_SIZE + 1, HDR_SIZE + hdr_length(rx)) >>
            \o FramesAtHead(SubSeq(rx, HDR_SIZE + hdr_length(rx) + 1, Len(rx)))
    ELSE << >>

\* C5: a pass on a connection with complete request frames buffered, in
\* which no write fails, takes every one of them from the stream in order,
\* writes one response for each in the same order, and when it returns 0
\* leaves no complete frame buffered.
C5_DrainUnderPipelining ==
    \A t \in TickResults :
       (client_sockfd # 0 /\ t.r.s.client_sockfd = client_sockfd
           /\ t.in.sp = NoFault) =>
          LET fr  == FramesAtHead(rxbuf)
              rv  == Recvs(t.r.s.trace)
              wr  == FullWrites(t.r.s.trace)
              nr  == Len(Recvs(trace))
              nw  == Len(FullWrites(trace))
          IN  /\ Len(t.r.s.outcomes) = Len(fr) + 1
              /\ Len(rv) = nr + Len(fr)
              /\ Len(wr) = nw + Len(fr)
              /\ \A k \in 1 .. Len(fr) :
                    /\ rv[nr + k].data = fr[k]
                    /\ PayloadOf(wr[nw + k].data)
                          = DAP_ProcessCommand(fr[k], "ok").response
              /\ t.r.ret = 0 => ~CompleteFrameAtHead(t.r.s.rxbuf)

\* C8: once the peer has closed its write side, the disconnect check of the
\* next pass reports disconnected, whatever recv() does first, and
\* handle_client() closes the socket and clears client_sockfd.
C8_DisconnectDetection ==
    (pc = "run" /\ client_sockfd # 0 /\ peer_closed) =>
       \A pk \in PeekFaults :
          LET h == handle_client(Cur, pk).s
          IN  /\ socket_disconnected(Cur, pk) = 1
              /\ h.client_sockfd = 0
              /\ client_sockfd \notin h.open

\* Positions of the trace after which an exchange stood failed: a command
\* was run and no whole response frame followed.
FailedAt(tr) ==
    {i \in 1 .. Len(tr) :
        /\ tr[i].ev = "cmd"
        /\ \/ i = Len(tr)
           \/ tr[i + 1].ev # "write"
           \/ tr[i + 1].ret # Len(tr[i + 1].data)}

\* C9: a pass in which an exchange fails (write error, short write, or a
\* response longer than the buffer) ends with the socket closed and
\* client_sockfd cleared, and no request is taken from a connection after an
\* exchange failed on it.
C9_FatalTeardown ==
    /\ \A t \in TickResults :
          (client_sockfd # 0 /\ FaultMet(t.r, t.in.sp)) =>
             /\ t.r.s.client_sockfd = 0
             /\ client_sockfd \notin t.r.s.open
    /\ \A i \in FailedAt(trace) : \A j \in RecvAt(trace) : j < i

\* The bytes of a RESPONSE frame for a payload, byte by byte: "DAP\0", the
\* length low byte first, type 2, reserved 0, then the payload.
ResponseBytes(payload) ==
    << 68, 65, 80, 0, Len(payload) % 256, Len(payload) \div 256, 2, 0 >>
        \o payload

\* A response buffer full of bytes.
SomeResponse == [i \in 1 .. CMSIS_DAP_PACKET_SIZE |-> (7 * i) % 256]

\* C10: every write of the core is made right after a command, one write
\* per command, and hands over the response frame of the command's output:
\* 8 + byte_count bytes; and for byte counts up to the buffer's size
\* send_dap_response() makes exactly one write, of exactly those bytes.
C10_ResponseWireFormat ==
    /\ \A i \in 1 .. Len(trace) :
          trace[i].ev = "write" =>
             /\ i > 1 /\ trace[i - 1].ev = "cmd"
             /\ trace[i - 1].ret = Len(trace[i - 1].data)
             /\ trace[i].data = ResponseBytes(trace[i - 1].data)
             /\ Len(trace[i].data) = HDR_SIZE + trace[i - 1].ret
    /\ client_sockfd # 0 =>
          \A n \in {0, 1, 255, 256, CMSIS_DAP_PACKET_SIZE} :
          \A wr \in {"full", "short", "err"} :
             LET r == send_dap_response([Cur EXCEPT !.trace = << >>],
                                        SomeResponse, n, wr)
             IN  /\ Len(r.s.trace) = 1
                 /\ r.s.trace[1].ev = "write"
                 /\ r.s.trace[1].data = ResponseBytes(SubSeq(SomeResponse, 1, n))
                 /\ (r.ret = 0) = (wr = "full")

\* A response frame with a two-byte payload was written whole.
C10_Witness ==
    /\ client_sockfd # 0
    /\ \E i \in 1 .. Len(trace) :
          /\ trace[i].ev = "write"
          /\ trace[i].ret = HDR_SIZE + 2
          /\ trace[i].data = << 68, 65, 80, 0, 2, 0, 2, 0 >>
                                \o << sent[1].payload[1], 0 >>


\* Two calls of recv_dap_request() in a row, from the current state.
RecvTwice ==
    LET r1 == recv_dap_request(Cur, CMSIS_DAP_PACKET_SIZE)
        r2 == recv_dap_request(r1.s, CMSIS_DAP_PACKET_SIZE)
    IN  [r1 |-> r1, r2 |-> r2]

\* The connection has been sent garbage of kind g and then one valid frame,
\* and nothing else.
GarbageThenFrame(g) ==
    /\ client_sockfd # 0 /\ Len(sent) = 2
    /\ sent[1].kind = g /\ sent[2].kind = "req"

\* What C6 asks of the calls of recv_dap_request() on such a connection:
\* the first to take anything reports an error, the next returns the frame,
\* and with everything buffered two calls in a row do just that.
OneErrorThenFrame ==
    LET rv == Recvs(trace)
        p  == sent[2].payload
    IN  /\ Len(rv) <= 2
        /\ Len(rv) >= 1 => rv[1].ret < 0
        /\ Len(rv) = 2 => /\ rv[2].ret = Len(p)
                          /\ rv[2].data = p
                          /\ rv[2].took = HDR_SIZE + Len(p)
        /\ (rv = << >> /\ wire = << >>) =>
              /\ RecvTwice.r1.ret < 0
              /\ RecvTwice.r2.ret = Len(p)
              /\ SubSeq(RecvTwice.r2.s.request, 1, Len(p)) = p
              /\ RecvTwice.r2.s.rxbuf = << >>

\* C6 as stated: 4 bytes of garbage followed by one valid, complete REQUEST
\* frame give exactly one error from recv_dap_request(), and a later call
\* returns the frame's payload.
C6_BadSignatureRecovery4 ==
    GarbageThenFrame("garbage4") => OneErrorThenFrame

\* C6, amended: 8 bytes of garbage (one header's size, the first four not
\* the signature) followed by one valid, complete REQUEST frame give exactly
\* one error from recv_dap_request(), which takes exactly those 8 bytes, and
\* a later call returns the frame's payload.
C6_BadSignatureRecovery8 ==
    GarbageThenFrame("garbage8") =>
       /\ OneErrorThenFrame
       /\ Len(Recvs(trace)) >= 1 => Recvs(trace)[1].took = HDR_SIZE

\* The garbage was discarded with one error and the two-byte frame behind it
\* came out.
C6_Witness ==
    /\ GarbageThenFrame("garbage8")
    /\ Len(sent[2].payload) = 2
    /\ Len(Recvs(trace)) = 2
    /\ Recvs(trace)[1].ret = -1
    /\ Recvs(trace)[2].data = sent[2].payload
    /\ rxbuf = << >> /\ wire = << >>

\* A header with the signature, type REQUEST and the oversized length is at
\* the head of the stream.
OversizeAtHead ==
    /\ client_sockfd # 0
    /\ Len(rxbuf) >= HDR_SIZE
    /\ hdr_signature(rxbuf) = U32(DAP_PKT_HDR_SIGNATURE)
    /\ hdr_packet_type(rxbuf) = DAP_PKT_TYPE_REQUEST
    /\ hdr_length(rxbuf) = OversizeLen

\* C7 as stated: a buffered header declaring the oversized length always
\* makes recv_dap_request() report an error, and nothing is copied into the
\* request buffer.
C7_OversizeAlwaysError ==
    OversizeAtHead =>
       LET r == recv_dap_request(Cur, CMSIS_DAP_PACKET_SIZE)
       IN  r.ret < 0 /\ r.s.request = request

\* C7, amended: with such a header at the head of the stream,
\* recv_dap_request() returns 0 until all of the declared bytes are
\* buffered and an error from then on; in both cases it takes nothing from
\* the stream and copies nothing, and the request buffer never holds more
\* than its 1024 bytes.
C7_OversizeErrorOnceBuffered ==
    /\ Len(request) <= CMSIS_DAP_PACKET_SIZE
    /\ OversizeAtHead =>
          LET r == recv_dap_request(Cur, CMSIS_DAP_PACKET_SIZE)
          IN  /\ r.s = Cur
              /\ r.ret = IF Len(rxbuf) >= HDR_SIZE + OversizeLen
                         THEN -1 ELSE 0

\* A pass met the oversized request with all its bytes buffered.
C7_Witness ==
    /\ OversizeAtHead
    /\ Len(rxbuf) = HDR_SIZE + OversizeLen
    /\ outcomes = << -1 >> /\ ret = -1
    /\ request = << >>

\* Whether something failed in the pass with inputs in from the current
\* state: handle_server() returned < 0 (accept() or fcntl() failed), the
\* probe of handle_client() met a hard error, or the pump ended < 0.
ServerStep(in) == handle_server([Cur EXCEPT !.outcomes = << >>], in.acc, in.fc)

ErrorInTick(t) ==
    \/ ServerStep(t.in).ret < 0
    \/ /\ ServerStep(t.in).s.client_sockfd # 0
       /\ socket_disconnected(ServerStep(t.in).s, t.in.pk) < 0
    \/ /\ t.r.s.outcomes # << >>
       /\ \/ t.r.s.outcomes[Len(t.r.s.outcomes)] < 0
          \/ FaultMet(t.r, t.in.sp)

\* C11: cmsis_dap_tcp_process() never returns a positive value, returns 0
\* whenever no connection is active after handle_server() and
\* handle_client(), returns a negative value when an error occurred in the
\* pass, and 0 otherwise.
C11_TickResult ==
    \A t \in TickResults :
        /\ t.r.ret <= 0
        /\ (t.r.s.client_sockfd = 0 => t.r.ret = 0)
        /\ (t.r.s.client_sockfd # 0 /\ ErrorInTick(t) => t.r.ret < 0)
        /\ (~ErrorInTick(t) => t.r.ret = 0)

\* loop() runs for ever, and a pass in which accept() hands over a pending
\* connection is not put off for ever.
AcceptTick == Tick /\ backlog' < backlog

SpecLive == Init /\ [][Next]_vars /\ WF_vars(Tick) /\ WF_vars(AcceptTick)

\* A pass in which handle_client() closed the connection does nothing more
\* with it: the descriptor is closed and forgotten, and the pump is not run.
ClosedNotUsed ==
    \A t \in TickResults :
        t.r.s.diag.disconnected > diag.disconnected =>
            /\ t.r.s.client_sockfd = 0
            /\ ServerStep(t.in).s.client_sockfd \notin t.r.s.open
            /\ t.r.s.outcomes = << >>
            /\ t.r.s.trace = ServerStep(t.in).s.trace
            /\ t.r.ret = 0

\* A connection has been closed, none is active, and a peer is waiting.
PeerWaitsAfterClose ==
    pc = "run" /\ diag.disconnected > 0 /\ client_sockfd = 0 /\ backlog > 0

\* C12: once the active connection has been closed it is never used again,
\* and a peer that connects afterwards becomes the active connection in a
\* later pass.
C12_ReconnectLiveness ==
    /\ [] ClosedNotUsed
    /\ (PeerWaitsAfterClose ~> client_sockfd # 0)

\* What holds of the waiting peer: it becomes the active connection unless
\* accept() handed it over as descriptor 0.
C12_ReconnectOrLeak ==
    /\ [] ClosedNotUsed
    /\ (PeerWaitsAfterClose ~> (client_sockfd # 0 \/ 0 \in open))

\* The messages one pass prints, as the growth of the three counters.
Printed(t) ==
    [connected    |-> t.r.s.diag.connected - diag.connected,
     dropped      |-> t.r.s.diag.dropped - diag.dropped,
     disconnected |-> t.r.s.diag.disconnected - diag.disconnected]

\* What one pass did: took a peer as the client, turned a peer away, closed
\* the client.
TookPeer(t)     == t.in.acc.ret >= 0 /\ client_sockfd = 0
TurnedAway(t)   == t.in.acc.ret >= 0 /\ client_sockfd # 0
ClosedClient(t) ==
    /\ ServerStep(t.in).s.client_sockfd # 0
    /\ t.r.s.client_sockfd = 0

DiagPerPass(t) ==
    /\ Printed(t).connected    = IF TookPeer(t) THEN 1 ELSE 0
    /\ Printed(t).dropped      = IF TurnedAway(t) THEN 1 ELSE 0
    /\ Printed(t).disconnected = IF ClosedClient(t) THEN 1 ELSE 0

\* C13: every accept of a new client prints one "client connected", every
\* connection turned away one "dropping new connection", every close one
\* "client disconnected"; the first and the last alternate, and a
\* connection is active exactly when one more has been connected than
\* disconnected.
C13_Diagnostics ==
    /\ \A t \in TickResults : DiagPerPass(t)
    /\ diag.connected - diag.disconnected \in {0, 1}
    /\ (client_sockfd # 0) <=> (diag.connected - diag.disconnected = 1)

\* The same with descriptor 0 left out of what accept() returns.
C13_DiagnosticsNonZero ==
    0 \notin open =>
        /\ \A t \in TickResults : t.in.acc.ret # 0 => DiagPerPass(t)
        /\ diag.connected - diag.disconnected \in {0, 1}
        /\ (client_sockfd # 0) <=> (diag.connected - diag.disconnected = 1)

\* One of the four calls of start_server() failed.
SetupFailed(so) ==
    so.socket < 0 \/ so.bind # 0 \/ so.fcntl < 0 \/ so.listen < 0

\* C14: if socket(), bind(), fcntl() or listen() fails on the server
\* socket, cmsis_dap_tcp_init() returns a negative value and the socket does
\* not listen; and with a server socket that does not listen no pass ever
\* makes a connection active, reads a request or runs a command.
C14_SetupFailure ==
    /\ \A so \in SocketResults :
          SetupFailed(so) =>
              /\ cmsis_dap_tcp_init(so).ret < 0
              /\ ~cmsis_dap_tcp_init(so).listening
    /\ (pc = "run" /\ ~listening) =>
          /\ client_sockfd = 0 /\ open = {} /\ backlog = 0
          /\ diag.connected = 0
          /\ outcomes = << >> /\ trace = << >> /\ ret = 0
          /\ \A t \in TickResults :
                /\ t.in.acc.ret < 0
                /\ t.r.s = Cur
                /\ t.r.ret = 0

\* Setup has failed after the socket was made, and passes go on.
C14_Witness ==
    /\ pc = "run" /\ ~listening /\ server_sockfd > 0
    /\ TickResults # {}
    /\ \E so \in SocketResults :
          /\ so.socket > 0 /\ so.listen < 0
          /\ cmsis_dap_tcp_init(so).ret = -1

\* A complete REQUEST frame with length 0 is next in the stream.
ZeroLengthAtHead ==
    /\ client_sockfd # 0
    /\ CompleteFrameAtHead(rxbuf)
    /\ hdr_length(rxbuf) = 0

\* C15: a complete REQUEST frame of length 0 is served like any other: the
\* result of recv_dap_request() is not 0 (no complete frame), and a pass
\* that finds the frame next in the stream runs one command for it, sends
\* one response and goes on to drain the frames behind it.
C15_ZeroLengthRequest ==
    ZeroLengthAtHead =>
        /\ recv_dap_request(Cur, CMSIS_DAP_PACKET_SIZE).ret # 0
        /\ \A t \in TickResults :
              (t.r.s.client_sockfd = client_sockfd
                 /\ t.in.sp = NoFault) =>
                  /\ Len(Cmds(t.r.s.trace)) =
                        Len(Cmds(trace)) + Len(FramesAtHead(rxbuf))
                  /\ Len(FullWrites(t.r.s.trace)) =
                        Len(FullWrites(trace)) + Len(FramesAtHead(rxbuf))
                  /\ ~CompleteFrameAtHead(t.r.s.rxbuf)

\* C16: whenever recv_dap_request() returns n > 0, n is the length the
\* header at the head of the stream declares, the first n bytes of the
\* caller's buffer are the n bytes that followed the header, the rest of
\* the buffer is as it was, and exactly those 8 + n bytes are gone from
\* the stream: what followed them is still there, unchanged.
C16_FrameConsumption ==
    client_sockfd # 0 =>
        \A r \in {recv_dap_request(Cur, CMSIS_DAP_PACKET_SIZE)} :
            r.ret > 0 =>
                /\ r.ret = hdr_length(rxbuf)
                /\ SubSeq(r.s.request, 1, r.ret) =
                      SubSeq(rxbuf, HDR_SIZE + 1, HDR_SIZE + r.ret)
                /\ SubSeq(r.s.request, r.ret + 1, Len(r.s.request)) =
                      SubSeq(request, r.ret + 1, Len(request))
                /\ r.s.rxbuf = SubSeq(rxbuf, HDR_SIZE + r.ret + 1, Len(rxbuf))
                /\ Len(r.s.rxbuf) = Len(rxbuf) - (HDR_SIZE + r.ret)

\* A request has been taken from a stream that held more than the request:
\* the start of the second message is still buffered.
C16_Witness ==
    /\ client_sockfd # 0
    /\ Len(sent) = 2
    /\ Len(Recvs(trace)) = 1
    /\ Recvs(trace)[1].ret = Len(sent[1].payload)
    /\ Recvs(trace)[1].ret > 0
    /\ Recvs(trace)[1].took = HDR_SIZE + Len(sent[1].payload)
    /\ rxbuf # << >>
    /\ rxbuf \o wire = MsgBytes(sent[2])
    /\ outcomes[1] > 0

\* C17: whenever recv_dap_request() returns 0, the unread bytes of the
\* connection are exactly what they were before the call.
C17_PeekBeforeConsume ==
    client_sockfd # 0 =>
        \A r \in {recv_dap_request(Cur, CMSIS_DAP_PACKET_SIZE)} :
            r.ret = 0 => r.s.rxbuf = rxbuf

\* The same for every stream but one with a complete frame of length 0 at
\* its head.
C17_PeekBeforeConsumeNonZero ==
    (client_sockfd # 0 /\ ~ZeroLengthAtHead) =>
        \A r \in {recv_dap_request(Cur, CMSIS_DAP_PACKET_SIZE)} :
            r.ret = 0 => r.s = Cur

\* Peers that send headers with a wrong signature, with the right signature
\* and a wrong type, and with a length beyond the request buffer.
InitMalformed ==
    InitWith({Msg("garbage8", << >>, 0),
              Msg("badtype", PayloadOfLen(1), 0),
              Msg("oversize", << >>, 0),
              Msg("req", PayloadOfLen(1), 0)})

SpecMalformed == InitMalformed /\ [][Next]_vars

\* What the eight bytes at the head of stream rx are.
BadSignatureAtHead(rx) ==
    Len(rx) >= HDR_SIZE /\ hdr_signature(rx) # U32(DAP_PKT_HDR_SIGNATURE)

BadTypeAtHead(rx) ==
    /\ Len(rx) >= HDR_SIZE
    /\ hdr_signature(rx) = U32(DAP_PKT_HDR_SIGNATURE)
    /\ hdr_packet_type(rx) # DAP_PKT_TYPE_REQUEST

TooLongAtHead(rx) ==
    /\ Len(rx) >= HDR_SIZE
    /\ hdr_signature(rx) = U32(DAP_PKT_HDR_SIGNATURE)
    /\ hdr_packet_type(rx) = DAP_PKT_TYPE_REQUEST
    /\ hdr_length(rx) > CMSIS_DAP_PACKET_SIZE
    /\ Len(rx) >= HDR_SIZE + hdr_length(rx)

\* C18: with eight bytes buffered whose signature is wrong, or whose
\* signature is right and whose type is not REQUEST, recv_dap_request()
\* returns an error and takes exactly those eight bytes from the stream;
\* with a valid header whose length is beyond the request buffer and the
\* whole frame buffered, it returns an error and takes nothing.  The
\* request buffer is not written in either case.
C18_ProtocolErrorConsumption ==
    client_sockfd # 0 =>
        \A r \in {recv_dap_request(Cur, CMSIS_DAP_PACKET_SIZE)} :
            /\ (BadSignatureAtHead(rxbuf) \/ BadTypeAtHead(rxbuf)) =>
                  /\ r.ret < 0
                  /\ r.s.rxbuf = SubSeq(rxbuf, HDR_SIZE + 1, Len(rxbuf))
                  /\ r.s = [Cur EXCEPT !.rxbuf = r.s.rxbuf]
            /\ TooLongAtHead(rxbuf) =>
                  /\ r.ret < 0
                  /\ r.s = Cur

\* A header of the wrong type was turned down with its payload byte left in
\* the stream, and a frame that is too long sits complete in another run.
C18_Witness ==
    /\ client_sockfd # 0
    /\ Len(sent) = 1 /\ sent[1].kind = "badtype"
    /\ outcomes = << -1 >> /\ ret = -1
    /\ Len(Recvs(trace)) = 1
    /\ Recvs(trace)[1].took = HDR_SIZE
    /\ rxbuf = sent[1].payload

C18_WitnessTooLong ==
    /\ client_sockfd # 0
    /\ TooLongAtHead(rxbuf)
    /\ outcomes = << -1 >> /\ ret = -1
    /\ trace = << >>

\* Response lengths beyond the packet buffer, up to the largest the low 16
\* bits of DAP_ProcessCommand()'s result can hold, and lengths at the edges
\* of what fits.
TooLongLens == {CMSIS_DAP_PACKET_SIZE + 1, CMSIS_DAP_PACKET_SIZE + 2,
                OversizeLen, 65535}
FittingLens == {0, 1, 2, CMSIS_DAP_PACKET_SIZE - 1, CMSIS_DAP_PACKET_SIZE}

\* send_dap_response() got past its size test: it made its write.
SizeCheckPassed(w, s, len) ==
    /\ Len(w.s.trace) = Len(s.trace) + 1
    /\ w.s.trace[Len(w.s.trace)].ev = "write"
    /\ Len(w.s.trace[Len(w.s.trace)].data) = HDR_SIZE + len

\* A connection on which nothing has been received or sent yet.
FreshConnection ==
    client_sockfd # 0 /\ trace = << >> /\ rxbuf = << >> /\ sent = << >>

\* C19: send_dap_response() with a length above 1024 returns an error and
\* writes nothing, whatever the transport would do; with a length of 0 to
\* 1024 it gets past the size test and makes its write.  A pass whose
\* command reports 1025 response bytes ends with that error after the
\* command, with no write.
C19_OversizedResponse ==
    /\ client_sockfd # 0 =>
          /\ \A len \in TooLongLens : \A wr \in {"full", "short", "err"} :
                send_dap_response(Cur, SomeResponse, len, wr)
                    = [s |-> Cur, ret |-> -1]
          /\ \A len \in IF FreshConnection
                        THEN 0 .. CMSIS_DAP_PACKET_SIZE ELSE FittingLens :
                \A w \in {send_dap_response(Cur, SomeResponse, len, "full")} :
                    w.ret = 0 /\ SizeCheckPassed(w, Cur, len)
    /\ \A t \in TickResults :
          (FaultMet(t.r, t.in.sp) /\ t.in.sp.kind = "oversize") =>
              /\ t.r.ret = -1
              /\ t.r.s.trace[Len(t.r.s.trace)].ev = "cmd"
              /\ t.r.s.trace[Len(t.r.s.trace)].ret = CMSIS_DAP_PACKET_SIZE + 1

\* A pass has ended in the refusal of a response of 1025 bytes.
C19_Witness ==
    /\ client_sockfd # 0 /\ ret = -1
    /\ outcomes # << >> /\ outcomes[Len(outcomes)] > 0
    /\ trace # << >>
    /\ trace[Len(trace)].ev = "cmd"
    /\ trace[Len(trace)].ret = CMSIS_DAP_PACKET_SIZE + 1
    /\ Writes(trace) = << >>

\* The pass t met a write that failed or fell short in iteration t.in.sp.at.
WriteFailedIn(t) ==
    FaultMet(t.r, t.in.sp) /\ t.in.sp.kind \in {"short", "err"}

\* C20: if write() takes fewer than the 8 + len bytes of a response, or
\* fails, send_dap_response() returns an error after that one write; and
\* the pass in which this happens ends there with that error: the failed
\* write is the last thing it did, it called recv_dap_request() no more
\* often than up to the failed response, and the requests behind stay
\* buffered.
C20_ShortWrite ==
    /\ client_sockfd # 0 =>
          \A len \in {0, 1, 2} : \A wr \in {"short", "err"} :
              \A w \in {send_dap_response(Cur, SomeResponse, len, wr)} :
                  /\ w.ret = -1
                  /\ SizeCheckPassed(w, Cur, len)
                  /\ w.s.trace[Len(w.s.trace)].ret < HDR_SIZE + len
                  /\ w.s = [Cur EXCEPT !.trace = w.s.trace]
    /\ \A t \in TickResults :
          WriteFailedIn(t) =>
              /\ t.r.ret = -1
              /\ Len(t.r.s.outcomes) = t.in.sp.at
              /\ Len(Recvs(t.r.s.trace)) = Len(Recvs(trace)) + t.in.sp.at
              /\ Len(Writes(t.r.s.trace)) = Len(Writes(trace)) + t.in.sp.at
              /\ t.r.s.trace[Len(t.r.s.trace)].ev = "write"
              /\ t.r.s.trace[Len(t.r.s.trace)].ret <
                    Len(t.r.s.trace[Len(t.r.s.trace)].data)
              /\ Len(FramesAtHead(t.r.s.rxbuf)) =
                    Len(FramesAtHead(ServerStep(t.in).s.rxbuf)) - t.in.sp.at

\* A pass ended in a short write while a second complete request was
\* buffered; that request is still there.
C20_Witness ==
    /\ client_sockfd # 0 /\ ret = -1
    /\ outcomes # << >> /\ outcomes[Len(outcomes)] > 0
    /\ Len(outcomes) = 1
    /\ trace # << >>
    /\ trace[Len(trace)].ev = "write"
    /\ trace[Len(trace)].ret = Len(trace[Len(trace)].data) - 1
    /\ Len(Writes(trace)) = 1
    /\ CompleteFrameAtHead(rxbuf)

\* accept() reports that no connection is pending.
AcceptWouldBlock(t) == t.in.acc.ret < 0 /\ t.in.acc.errno = "EAGAIN"

\* The peek of the pass reports no hard error and no end of stream.
PeekTransient(t) ==
    client_sockfd # 0 /\ socket_disconnected(Cur, t.in.pk) = 0

\* The peek finds nothing to read: EAGAIN on an empty queue of a peer that
\* has not closed, possibly after EINTR, ETIMEDOUT or ENOTCONN.
PeekNoData(t) ==
    PeekTransient(t) /\ rxbuf = << >> /\ ~peer_closed

\* C21: a pass in which accept() reports would-block and the peek reports
\* would-block or no data leaves the descriptor, the open sockets, the
\* unread bytes, the bytes written and the request buffer as they were and
\* returns 0; whatever is buffered, accept() and peek reporting such
\* conditions never close the connection, and a negative result of such a
\* pass is the pump's.
C21_TransientNoOp ==
    \A t \in TickResults :
        AcceptWouldBlock(t) =>
            /\ client_sockfd = 0 =>
                  t.r.ret = 0 /\ t.r.s = [Cur EXCEPT !.outcomes = << >>]
            /\ PeekNoData(t) =>
                  t.r.ret = 0 /\ t.r.s = [Cur EXCEPT !.outcomes = << 0 >>]
            /\ PeekTransient(t) =>
                  /\ t.r.s.client_sockfd = client_sockfd
                  /\ t.r.s.open = open
                  /\ t.r.s.diag = diag
                  /\ t.r.ret < 0 =>
                        t.r.s.outcomes[Len(t.r.s.outcomes)] < 0
                            \/ FaultMet(t.r, t.in.sp)

\* A connection that has answered one request has gone through a pass with
\* nothing pending and nothing to read, and is as it was.
C21_Witness ==
    /\ client_sockfd # 0 /\ backlog = 0
    /\ rxbuf = << >> /\ wire = << >> /\ ~peer_closed
    /\ outcomes = << 0 >> /\ ret = 0
    /\ Len(FullWrites(trace)) = 1
    /\ Len(trace) = 3

\* What recv() of the peek may fail with, up to two failures in a row
\* before a call that does not fail.
PeekErrnos == {"EINTR", "EAGAIN", "ETIMEDOUT", "ENOTCONN", "ECONNRESET"}
ProbeErrs == {<< >>} \cup {<< a >> : a \in PeekErrnos}
                \cup {<< a, b >> : a \in PeekErrnos, b \in PeekErrnos}

\* errs without the EINTR failures it starts with.
RECURSIVE AfterRetries(_)
AfterRetries(errs) ==
    IF errs # << >> /\ Head(errs) = "EINTR"
    THEN AfterRetries(Tail(errs)) ELSE errs

\* What the probe should make of the outcome that ends the retries.
ProbeSaysClose(errs) ==
    IF AfterRetries(errs) = << >>
    THEN rxbuf = << >> /\ peer_closed             \* recv() returned 0
    ELSE Head(AfterRetries(errs)) \notin {"EAGAIN", "ETIMEDOUT", "ENOTCONN"}

\* C22: the one-byte peek takes nothing from the stream; handle_client()
\* closes and clears the connection when the peek returns 0 and when it
\* fails with an error other than EAGAIN, ETIMEDOUT, ENOTCONN; it leaves
\* the connection active on those three; EINTR makes it peek again.
C22_ProbeClassification ==
    client_sockfd # 0 =>
        \A errs \in ProbeErrs :
            \A h \in {handle_client(Cur, errs)} :
                /\ h.ret = 0
                /\ ProbeSaysClose(errs) =>
                      /\ h.s.client_sockfd = 0
                      /\ h.s.open = open \ {client_sockfd}
                      /\ h.s.diag.disconnected = diag.disconnected + 1
                /\ ~ProbeSaysClose(errs) => h.s = Cur
                /\ socket_peek(Cur, 1).s = Cur

\* A second connection, after the first was closed, holds unread bytes of
\* a peer that has closed.
C22_Witness ==
    /\ client_sockfd # 0
    /\ diag.connected = 2 /\ diag.disconnected = 1
    /\ rxbuf # << >> /\ peer_closed

\* handle_client() called n times in a row.
RECURSIVE handle_client_times(_, _)
handle_client_times(s, n) ==
    IF n = 0 THEN s ELSE handle_client_times(handle_client(s, << >>).s, n - 1)

\* C23: while client_sockfd is 0, socket_available() returns 0,
\* socket_read(), socket_peek() and socket_write() fail and change nothing,
\* a pass that ends with no connection runs no command and writes nothing,
\* handle_client() returns 0 and changes nothing however often it is called.
C23_NoConnectionNoFrames ==
    (pc = "run" /\ client_sockfd = 0) =>
        /\ socket_available(Cur) = 0
        /\ \A len \in {0, 1, HDR_SIZE} :
              /\ socket_read(Cur, len) = [s |-> Cur, ret |-> -1, data |-> << >>]
              /\ socket_peek(Cur, len) = [s |-> Cur, ret |-> -1, data |-> << >>]
              /\ \A wr \in {"full", "short", "err"} :
                    socket_write(Cur, Zeros(len), len, wr)
                        = [s |-> Cur, ret |-> -1]
        /\ \A n \in 1 .. 3 : handle_client_times(Cur, n) = Cur
        /\ handle_client(Cur, << >>).ret = 0
        /\ \A t \in TickResults :
              t.r.s.client_sockfd = 0 =>
                  /\ t.r.ret = 0
                  /\ t.r.s.outcomes = << >>
                  /\ t.r.s.trace = ServerStep(t.in).s.trace
                  /\ t.r.s.request = request

\* A connection that answered a request has been closed, and a pass has
\* run with no connection since.
C23_Witness ==
    /\ pc = "run" /\ client_sockfd = 0
    /\ diag.disconnected = 1
    /\ Len(FullWrites(trace)) = 1
    /\ outcomes = << >> /\ ret = 0

\* C24: whenever a connection is recorded as active, its socket has been
\* set non-blocking.
C24_NonBlocking ==
    client_sockfd # 0 => client_sockfd \in nonblock

\* What pass t took from the stream, in order.
NewRecvs(t) ==
    Recvs(SubSeq(t.r.s.trace, Len(ServerStep(t.in).s.trace) + 1,
                 Len(t.r.s.trace)))

\* The pump of pass t ran one iteration per result it logged; every
\* iteration but the last went on, having taken a whole frame, and the last
\* one ended the loop with a result <= 0 or a failed response.
LoopBounded(t) ==
    /\ Len(t.r.s.outcomes) <= Len(FramesAtHead(rxbuf)) + 1
    /\ \A i \in 1 .. Len(t.r.s.outcomes) - 1 : t.r.s.outcomes[i] > 0
    /\ t.r.s.outcomes # << >> =>
          \/ t.r.s.outcomes[Len(t.r.s.outcomes)] <= 0
          \/ FaultMet(t.r, t.in.sp)
    /\ Len(t.r.s.rxbuf) <= Len(ServerStep(t.in).s.rxbuf)
    /\ \A i \in 1 .. Len(t.r.s.outcomes) :
          t.r.s.outcomes[i] > 0 =>
              /\ Len(NewRecvs(t)) >= i
              /\ NewRecvs(t)[i].took = HDR_SIZE + t.r.s.outcomes[i]

C25_TickTerminationNonBlocking ==
    \A t \in TickResults :
        /\ LoopBounded(t)
        /\ t.r.s.client_sockfd \in t.r.s.nonblock => ~Blocked(t.r.s)

\* Peers that put something into the reserved byte of their headers.
ReservedValues == {0, 1, 255}

InitReserved ==
    InitWith({Msg("req", m.payload, v) : m \in ShortReqs, v \in {0, 255}})

SpecReserved == InitReserved /\ [][Next]_vars

\* A header of a request is at the head of rx, whole.
RequestHeaderAtHead(rx) ==
    /\ Len(rx) >= HDR_SIZE
    /\ hdr_signature(rx) = U32(DAP_PKT_HDR_SIGNATURE)
    /\ hdr_packet_type(rx) = DAP_PKT_TYPE_REQUEST

\* The stream rx with v in the reserved byte of each request header.
RECURSIVE WithReserved(_, _)
WithReserved(rx, v) ==
    IF ~RequestHeaderAtHead(rx) THEN rx
    ELSE IF ~CompleteFrameAtHead(rx) THEN [rx EXCEPT ![HDR_SIZE] = v]
    ELSE SubSeq([rx EXCEPT ![HDR_SIZE] = v], 1, HDR_SIZE + hdr_length(rx))
            \o WithReserved(SubSeq(rx, HDR_SIZE + hdr_length(rx) + 1, Len(rx)),
                            v)

\* The results a and b of one call on two streams agree in all but the
\* reserved bytes of what stays buffered.
SameButReserved(a, b, v) ==
    /\ a.ret = b.ret
    /\ a.s.request = b.s.request
    /\ a.s.outcomes = b.s.outcomes
    /\ a.s.trace = b.s.trace
    /\ Len(a.s.rxbuf) = Len(b.s.rxbuf)
    /\ WithReserved(a.s.rxbuf, v) = WithReserved(b.s.rxbuf, v)

\* C26: on two streams that differ only in the reserved byte of request
\* headers, recv_dap_request() and the whole pump return the same results,
\* take the same number of bytes and deliver the same payloads.
C26_ReservedIgnored ==
    client_sockfd # 0 =>
        \A v \in ReservedValues :
            \A other \in {[Cur EXCEPT !.rxbuf = WithReserved(rxbuf, v)]} :
                /\ SameButReserved(
                      recv_dap_request(Cur, CMSIS_DAP_PACKET_SIZE),
                      recv_dap_request(other, CMSIS_DAP_PACKET_SIZE), v)
                /\ SameButReserved(
                      process_dap_requests(Cur, NoFault, 1),
                      process_dap_requests(other, NoFault, 1), v)

\* A request whose header carries 255 in the reserved byte has been served.
C26_Witness ==
    /\ client_sockfd # 0
    /\ Len(sent) = 1 /\ sent[1].reserved = 255
    /\ Len(sent[1].payload) = MaxPayloadLen
    /\ Len(Recvs(trace)) = 1
    /\ Recvs(trace)[1].data = sent[1].payload
    /\ Len(FullWrites(trace)) = 1
    /\ rxbuf = << >> /\ ret = 0

\* The bytes of frame are one whole RESPONSE frame.
WholeResponseFrame(frame) ==
    /\ Len(frame) >= HDR_SIZE
    /\ hdr_signature(frame) = U32(DAP_PKT_HDR_SIGNATURE)
    /\ hdr_packet_type(frame) = DAP_PKT_TYPE_RESPONSE
    /\ hdr_reserved(frame) = 0
    /\ hdr_length(frame) = Len(frame) - HDR_SIZE

\* The write e put some but not all of its bytes on the wire.
Truncated(e) == e.ret >= 0 /\ e.ret < Len(e.data)

\* C27: what has been written on the connection is a sequence of whole
\* RESPONSE frames, but for a truncated frame at its very end: every write
\* was handed one whole frame, and no write follows one that took only a
\* part of its frame.
C27_OutboundWellFormed ==
    \A i \in 1 .. Len(Writes(trace)) :
        /\ WholeResponseFrame(Writes(trace)[i].data)
        /\ Truncated(Writes(trace)[i]) => i = Len(Writes(trace))

\* The frames handed to write() are whole RESPONSE frames.
C27_FramesWhole ==
    \A i \in 1 .. Len(Writes(trace)) :
        WholeResponseFrame(Writes(trace)[i].data)

\* Requests taken from the stream on this connection: recv_dap_request()
\* returned them as frames, or took a frame of length 0.
RequestsConsumed(tr) ==
    SelectSeq(tr, LAMBDA e : e.ev = "recv" /\ e.ret >= 0)

\* C28: between passes, as many response frames have been fully written on
\* the active connection as request frames have been taken from its stream;
\* and no request is taken from the stream after a request whose response
\* could not be sent.
C28_Accounting ==
    (pc = "run" /\ client_sockfd # 0) =>
        /\ Len(FullWrites(trace)) = Len(RequestsConsumed(trace))
        /\ \A i \in FailedAt(trace) : \A j \in RecvAt(trace) : j < i

\* The same count while no response has failed and no frame of length 0
\* has been taken.
C28_AccountingWhileSound ==
    (pc = "run" /\ client_sockfd # 0 /\ FailedAt(trace) = {}
       /\ \A i \in RecvAt(trace) : trace[i].ret # 0) =>
        Len(FullWrites(trace)) = Len(RequestsConsumed(trace))

\* The passes from the current state in which handle_client() closes the
\* connection that was active when the pass began.
ClosingTicks ==
    {t \in TickResults : client_sockfd # 0 /\ ClosedClient(t)}

\* C29: in one pass handle_server() runs before handle_client(), and
\* handle_client() before the pump: a pass that finds the client gone
\* turns away the peer accept() hands over in that pass (the socket is
\* closed, no "connected" is printed), ends with no active connection, and
\* does not run the pump, whatever is buffered.
C29_TickStepOrder ==
    \A t \in ClosingTicks :
        /\ t.r.s.client_sockfd = 0
        /\ t.r.ret = 0
        /\ t.r.s.outcomes = << >>
        /\ t.r.s.trace = trace /\ t.r.s.request = request
        /\ t.r.s.open = open \ {client_sockfd}
        /\ t.r.s.diag.disconnected = diag.disconnected + 1
        /\ t.r.s.diag.connected = diag.connected
        /\ t.in.acc.ret >= 0 =>
              /\ t.r.s.diag.dropped = diag.dropped + 1
              /\ t.in.acc.ret \notin t.r.s.open
              /\ t.r.s.backlog = backlog - 1
        /\ t.in.acc.ret < 0 =>
              /\ t.r.s.diag.dropped = diag.dropped
              /\ t.r.s.backlog = backlog

\* The peer of the active connection has closed, a second peer waits, and
\* the pass that finds the first gone turns the second away.
C29_Witness ==
    /\ client_sockfd # 0 /\ peer_closed /\ rxbuf = << >> /\ backlog > 0
    /\ \E t \in ClosingTicks :
          /\ t.in.acc.ret >= 0 /\ t.in.pk = << >>
          /\ t.r.s.client_sockfd = 0 /\ t.r.s.open = {}
          /\ t.r.s.diag.dropped = diag.dropped + 1

\* Contents the request buffer may have been left with by earlier calls.
StaleRequests == {<< >>, Zeros(HDR_SIZE + 1),
                  PacketHdr(DAP_PKT_HDR_SIGNATURE, 1, DAP_PKT_TYPE_REQUEST, 0)}

\* C30: recv_dap_request() works on the unread bytes of the active
\* connection alone: what the request buffer holds from earlier calls and
\* connections has no part in its result or in what it takes, a connection
\* starts with nothing buffered and nothing parsed, and the first frame
\* taken on a connection is the first message its peer sent, from its first
\* byte on.
C30_NoStateAcrossConnections ==
    /\ (client_sockfd # 0 /\ Recvs(trace) # << >>) =>
          /\ Recvs(trace)[1].took = Len(MsgBytes(sent[1]))
          /\ Recvs(trace)[1].data = sent[1].payload
    /\ client_sockfd # 0 =>
          \A x \in StaleRequests :
              \A a \in {recv_dap_request(Cur, CMSIS_DAP_PACKET_SIZE)} :
              \A b \in {recv_dap_request([Cur EXCEPT !.request = x],
                                         CMSIS_DAP_PACKET_SIZE)} :
                  /\ a.ret = b.ret
                  /\ a.s.rxbuf = b.s.rxbuf
                  /\ a.ret > 0 => SubSeq(a.s.request, 1, a.ret)
                                     = SubSeq(b.s.request, 1, b.ret)
    /\ \A t \in TickResults :
          (TookPeer(t) /\ t.r.s.client_sockfd # 0) =>
              /\ t.r.s.rxbuf = << >> /\ ~t.r.s.peer_closed
              /\ t.r.s.trace = << >>
              /\ t.r.s.outcomes = << 0 >> /\ t.r.ret = 0

\* On a second connection the first request has been taken, one byte long,
\* while the request buffer still holds a byte of the first connection's
\* longer request behind it.
C30_Witness ==
    /\ client_sockfd # 0
    /\ diag.connected = 2 /\ diag.disconnected = 1
    /\ Len(Recvs(trace)) = 1
    /\ Recvs(trace)[1].ret = 1
    /\ Recvs(trace)[1].data = sent[1].payload
    /\ Len(request) = 2
    /\ request[2] = PayloadOfLen(2)[2]

\* buf after the payloads have been read into it one after the other.
RECURSIVE Overlay(_, _)
Overlay(buf, payloads) ==
    IF payloads = << >> THEN buf
    ELSE Overlay(Memcpy(buf, Head(payloads)), Tail(payloads))

\* The payloads of the frames pass t took from the stream.
TakenBy(t) ==
    SubSeq(FramesAtHead(ServerStep(t.in).s.rxbuf), 1, Len(NewRecvs(t)))

\* The commands pass t ran.
NewCmds(t) ==
    Cmds(SubSeq(t.r.s.trace, Len(ServerStep(t.in).s.trace) + 1,
                Len(t.r.s.trace)))

\* C31: when the command processor is run for a frame of length n, the
\* first n bytes of the request buffer are the frame's payload and the
\* bytes behind them are what earlier requests, of this or of an earlier
\* connection, left there; the processor is handed the buffer and no
\* length; handle_server() and handle_client() do not touch the buffer.
C31_RequestBuffer ==
    /\ \A t \in TickResults :
          /\ ServerStep(t.in).s.request = request
          /\ handle_client(ServerStep(t.in).s, t.in.pk).s.request = request
          /\ t.r.s.request = Overlay(request, TakenBy(t))
          /\ \A i \in 1 .. Len(NewCmds(t)) :
                /\ NewRecvs(t)[i].data = TakenBy(t)[i]
                /\ NewCmds(t)[i].ret <= 2 =>
                      NewCmds(t)[i].data =
                          DAP_ProcessCommand(
                              Overlay(request, SubSeq(TakenBy(t), 1, i)),
                              "ok").response
    /\ client_sockfd # 0 =>
          \A r \in {recv_dap_request(Cur, CMSIS_DAP_PACKET_SIZE)} :
              r.ret > 0 =>
                  r.s.request = SubSeq(rxbuf, HDR_SIZE + 1, HDR_SIZE + r.ret)
                                   \o SubSeq(request, r.ret + 1, Len(request))

\* On one connection a request of two bytes and then one of one byte have
\* been served: the second byte of the first is still in the buffer.
C31_Witness ==
    /\ client_sockfd # 0 /\ diag.connected = 1
    /\ Len(Cmds(trace)) = 2
    /\ Recvs(trace)[1].ret = 2 /\ Recvs(trace)[2].ret = 1
    /\ request = << PayloadOfLen(1)[1], PayloadOfLen(2)[2] >>

\* C32: every socket accept() returns is either recorded as the active
\* connection or closed before handle_server() returns, and the active
\* connection's socket is closed by handle_client() and by nothing else;
\* so between passes one accepted socket is open if a connection is active
\* and none otherwise, whatever descriptor accept() returned, 0 included.
C32_SocketAccounting ==
    /\ open = IF client_sockfd # 0 THEN {client_sockfd} ELSE {}
    /\ \A t \in TickResults :
          /\ t.in.acc.ret >= 0 =>
                \A h \in {ServerStep(t.in)} :
                    \/ h.s.client_sockfd = t.in.acc.ret
                          /\ t.in.acc.ret \in h.s.open
                          /\ client_sockfd = 0
                    \/ t.in.acc.ret \notin h.s.open
                          /\ h.s.client_sockfd = client_sockfd
          /\ t.r.s.open =
                IF t.r.s.client_sockfd # 0 THEN {t.r.s.client_sockfd} ELSE {}

\* The same with descriptor 0 left out of what accept() returns.
C32_SocketAccountingNonZero ==
    0 \notin open =>
        /\ open = IF client_sockfd # 0 THEN {client_sockfd} ELSE {}
        /\ \A t \in TickResults :
              t.in.acc.ret # 0 =>
                  t.r.s.open =
                     IF t.r.s.client_sockfd # 0 THEN {t.r.s.client_sockfd}
                     ELSE {}

\* C33: with a request header of length above 1024 at the head of the
\* stream and all its declared bytes buffered, every pass on the connection
\* returns an error, takes nothing from the stream, runs no command and
\* writes nothing, and leaves the connection active with the same bytes at
\* the head of its stream, so that the same holds of the next pass and no
\* frame behind is ever reached; the peer's closing does not end it.
C33_OversizeWedge ==
    (client_sockfd # 0 /\ TooLongAtHead(rxbuf)) =>
        \A t \in TickResults :
                /\ t.r.ret < 0
                /\ t.r.s.outcomes = << -1 >>
                /\ t.r.s.client_sockfd = client_sockfd
                /\ t.r.s.open = open
                /\ t.r.s.rxbuf = rxbuf
                /\ t.r.s.trace = trace
                /\ t.r.s.request = request
                /\ t.r.s.diag.disconnected = diag.disconnected
                /\ TooLongAtHead(t.r.s.rxbuf)

\* A pass has met the oversized request with a complete valid request
\* buffered behind it, which is still there.
C33_Witness ==
    /\ client_sockfd # 0
    /\ Len(sent) = 2 /\ sent[1].kind = "oversize" /\ sent[2].kind = "req"
    /\ rxbuf = MsgBytes(sent[1]) \o MsgBytes(sent[2])
    /\ outcomes = << -1 >> /\ ret = -1
    /\ trace = << >>

\* Peers that also stop in the middle of a frame: a request header that
\* declares two bytes, followed by one.
InitTruncated ==
    InitWith({Msg("truncated", PayloadOfLen(2), 0),
              Msg("req", PayloadOfLen(1), 0),
              Msg("req", PayloadOfLen(0), 0)})

SpecTruncated == InitTruncated /\ [][Next]_vars

\* Bytes at the head of stream rx of which recv_dap_request() takes none,
\* however often it is called: less than a header, or a request header whose
\* declared bytes are not all there or do not fit the request buffer.
LeftoverAtHead(rx) ==
    /\ rx # << >>
    /\ \/ Len(rx) < HDR_SIZE
       \/ /\ RequestHeaderAtHead(rx)
          /\ \/ Len(rx) < HDR_SIZE + hdr_length(rx)
             \/ hdr_length(rx) > CMSIS_DAP_PACKET_SIZE

\* The peer of the active connection has closed and bytes it sent before
\* are unread.
ClosedWithData == pc = "run" /\ client_sockfd # 0 /\ peer_closed /\ rxbuf # << >>

\* The check of handle_client() on a connection the peer has closed: connected
\* while bytes are unread, disconnected once there are none.
ProbeFollowsBuffer ==
    (pc = "run" /\ client_sockfd # 0 /\ peer_closed) =>
        \A pk \in PeekFaults :
            /\ socket_disconnected(Cur, pk) = (IF rxbuf = << >> THEN 1 ELSE 0)
            /\ rxbuf # << >> => handle_client(Cur, pk).s = Cur

\* A pass on the closed connection does with the unread bytes what it does
\* on an open one; a complete request with a payload at the head is read, the
\* command is run on it, and if nothing fails in the pass its response is
\* written whole.
BufferedStillServed ==
    ClosedWithData =>
        \A t \in TickResults :
            /\ t.r.s.client_sockfd = client_sockfd
            /\ t.r.s.diag.disconnected = diag.disconnected
            /\ \A o \in {cmsis_dap_tcp_process(
                             [Cur EXCEPT !.peer_closed = FALSE], t.in)} :
                  /\ t.r.ret = o.ret
                  /\ t.r.s = [o.s EXCEPT !.peer_closed = TRUE]
            /\ (CompleteFrameAtHead(rxbuf) /\ hdr_length(rxbuf) > 0) =>
                  /\ NewRecvs(t) # << >>
                  /\ NewRecvs(t)[1].data = FramesAtHead(rxbuf)[1]
                  /\ NewCmds(t) # << >>
                  /\ NewCmds(t)[1].ret <= 2 =>
                        NewCmds(t)[1].data[1] = FramesAtHead(rxbuf)[1][1]
                  /\ t.in.sp = NoFault =>
                        Len(FullWrites(t.r.s.trace))
                            > Len(FullWrites(trace))

\* With the peer gone and a leftover at the head, no step of the program or
\* of the network ends the connection, takes a byte, or makes another peer
\* the client.
LeftoverStays ==
    (ClosedWithData /\ LeftoverAtHead(rxbuf)) =>
        /\ client_sockfd' = client_sockfd
        /\ client_sockfd \in open'
        /\ peer_closed'
        /\ rxbuf' = rxbuf
        /\ trace' = trace
        /\ diag'.connected = diag.connected
        /\ diag'.disconnected = diag.disconnected
        /\ backlog' < backlog => diag'.dropped = diag.dropped + 1

MaxBridgeFd == 3
MaxInbound == 1
MaxUartRx == 1

\* Descriptors the kernel hands to the task.
BridgeFds == 0 .. MaxBridgeFd

\* listen(listen_fd, 1)
BRIDGE_BACKLOG == 1

dap_vars == << pc, server_sockfd, listening, client_sockfd, open, nonblock,
               backlog, rxbuf, peer_closed, request, diag, outcomes, trace,
               ret, wire, sent, npeers, nmsgs, nfaults, catalog >>

\* The locals of the select() loop and the kernel's side of them.
BridgeCur ==
    [client_fd |-> client_fd, uart_fd |-> uart_fd, fds |-> fds,
     pending |-> pending, inbound |-> inbound, hung_up |-> hung_up,
     uart_rx |-> uart_rx, did |-> Quiet]

\* The statements before the loop: socket(), bind(), listen(),
\* uart_driver_install(), uart_param_config().  A failure ends the task
\* with the socket left open; a failed ESP_ERROR_CHECK aborts.
uart_bridge_setup(so) ==
    IF so.socket < 0
    THEN [task |-> "deleted", listen_fd |-> so.socket, fds |-> {}]
    ELSE IF so.bind < 0 \/ so.listen < 0 \/ so.install # 0
    THEN [task |-> "deleted", listen_fd |-> so.socket, fds |-> {so.socket}]
    ELSE IF so.config # 0
    THEN [task |-> "aborted", listen_fd |-> so.socket, fds |-> {so.socket}]
    ELSE [task |-> "loop", listen_fd |-> so.socket, fds |-> {so.socket}]

\* "Handle new connections" without the test for a client that is there.
handle_new_connection_replacing(b, rs, acc, op) ==
    IF "listen" \notin rs THEN b
    ELSE IF acc < 0 THEN b
    ELSE IF op < 0
         THEN [b EXCEPT !.pending = @ - 1,
                        !.fds = (@ \cup {acc}) \ {acc},
                        !.client_fd = -1,
                        !.uart_fd = op,
                        !.did.accepted = acc,
                        !.did.open_failed = TRUE,
                        !.did.restart = TRUE]
         ELSE [b EXCEPT !.pending = @ - 1,
                        !.fds = @ \cup {acc, op},
                        !.client_fd = acc,
                        !.uart_fd = op,
                        !.inbound = 0,
                        !.hung_up = FALSE,
                        !.did.accepted = acc,
                        !.did.client = TRUE,
                        !.did.restart = TRUE]

\* "Handle new connections": with the listening socket in the read set rs,
\* accept() gives acc; a first client is kept and the UART opened, which
\* gives op; any other connection is closed.
handle_new_connection(b, rs, acc, op) ==
    IF "listen" \notin rs THEN b
    ELSE IF acc < 0 THEN b
    ELSE IF b.client_fd < 0
    THEN IF op < 0
         THEN [b EXCEPT !.pending = @ - 1,
                        !.fds = (@ \cup {acc}) \ {acc},
                        !.client_fd = -1,
                        !.uart_fd = op,
                        !.did.accepted = acc,
                        !.did.open_failed = TRUE,
                        !.did.restart = TRUE]
         ELSE [b EXCEPT !.pending = @ - 1,
                        !.fds = @ \cup {acc, op},
                        !.client_fd = acc,
                        !.uart_fd = op,
                        !.inbound = 0,
                        !.hung_up = FALSE,
                        !.did.accepted = acc,
                        !.did.client = TRUE,
                        !.did.restart = TRUE]
    ELSE [b EXCEPT !.pending = @ - 1,
                   !.fds = (@ \cup {acc}) \ {acc},
                   !.did.accepted = acc,
                   !.did.dropped = TRUE]

\* "Handle client socket" with the UART left open at a disconnect.
handle_client_socket_uart_kept(b, rs, rc) ==
    IF ~(b.client_fd > 0 /\ "client" \in rs) THEN b
    ELSE IF \/ rc.ret = 0
            \/ rc.ret < 0 /\ rc.errno \in {"ECONNABORTED", "ENOTCONN"}
    THEN [b EXCEPT !.fds = @ \ {b.client_fd},
                   !.client_fd = -1,
                   !.inbound = 0,
                   !.hung_up = FALSE,
                   !.did.disconnected = TRUE,
                   !.did.restart = TRUE]
    ELSE IF rc.ret < 0 THEN b
    ELSE [b EXCEPT !.inbound = @ - rc.ret]

\* "Handle client socket": recv() gives rc; a disconnect closes the client
\* and the UART, other errors are printed, bytes go to the UART.
handle_client_socket(b, rs, rc) ==
    IF ~(b.client_fd > 0 /\ "client" \in rs) THEN b
    ELSE IF \/ rc.ret = 0
            \/ rc.ret < 0 /\ rc.errno \in {"ECONNABORTED", "ENOTCONN"}
    THEN [b EXCEPT !.fds = @ \ {b.client_fd, b.uart_fd},
                   !.client_fd = -1,
                   !.uart_fd = -1,
                   !.inbound = 0,
                   !.hung_up = FALSE,
                   !.did.disconnected = TRUE,
                   !.did.restart = TRUE]
    ELSE IF rc.ret < 0 THEN b
    ELSE [b EXCEPT !.inbound = @ - rc.ret]

\* "Handle UART": read() gives rd; bytes go to the client.
handle_uart(b, rs, rd) ==
    IF ~(b.uart_fd > 0 /\ "uart" \in rs) THEN b
    ELSE IF rd <= 0 THEN b
    ELSE [b EXCEPT !.uart_rx = @ - rd]

\* One iteration of while(1) after select() returned the read set in.rs;
\* `continue` skips what follows.
uart_bridge_iteration(b, in) ==
    The({ IF n.did.restart THEN n
          ELSE The({ IF c.did.restart THEN c
                     ELSE handle_uart(c, in.rs, in.rd)
                     : c \in {handle_client_socket(n, in.rs, in.rc)} })
          : n \in {handle_new_connection(b, in.rs, in.acc, in.op)} })

\* What select() reports readable: the listening socket with a connection
\* waiting, the client with bytes, an end of stream or (fault) an error to
\* report, the UART with bytes.
ReadySets ==
    {  (IF pending > 0 THEN {"listen"} ELSE {})
         \cup (IF client_fd >= 0 /\ (inbound > 0 \/ hung_up \/ fault)
               THEN {"client"} ELSE {})
         \cup (IF uart_fd >= 0 /\ uart_rx > 0 THEN {"uart"} ELSE {})
       : fault \in BOOLEAN }

\* What recv() on the client gives: bytes at hand, 0 at the end of the
\* stream, else an error.
RecvOutcomes ==
    IF inbound > 0
    THEN {[ret |-> n, errno |-> "none"] : n \in 1 .. inbound}
    ELSE IF hung_up THEN {[ret |-> 0, errno |-> "none"]}
    ELSE {[ret |-> -1, errno |-> e] :
              e \in {"EAGAIN", "ECONNABORTED", "ENOTCONN", "ECONNRESET"}}

\* The results of the system calls of one iteration.  select() blocks while
\* nothing is readable; accept() and open() give a descriptor not in use.
BridgeInputs ==
    {in \in [rs  : ReadySets \ {{}},
             acc : (BridgeFds \ fds) \cup {-1},
             op  : (BridgeFds \ fds) \cup {-1},
             rc  : RecvOutcomes,
             rd  : (1 .. uart_rx) \cup {-1}] :
        /\ "listen" \in in.rs \/ in.acc = -1
        /\ in.acc >= 0 \/ in.op = -1
        /\ in.op = -1 \/ in.op # in.acc}

SetupResults == [socket : {0, 1, -1}, bind : {0, -1}, listen : {0, -1},
                 install : {0, -1}, config : {0, -1}]

BridgeSetup ==
    /\ task = "setup"
    /\ \E so \in SetupResults :
       \E r \in {uart_bridge_setup(so)} :
          /\ task' = r.task
          /\ listen_fd' = r.listen_fd
          /\ fds' = r.fds
    /\ UNCHANGED << client_fd, uart_fd, pending, inbound, hung_up, uart_rx,
                    last, gone, dap_vars >>

\* One pass through the body of while(1): select() fails and the task
\* shuts down, or the iteration runs.
BridgeLoop ==
    /\ task = "loop"
    /\ \/ /\ task' = "deleted"
          /\ fds' = fds \ ({listen_fd} \cup
                             {f \in {client_fd, uart_fd} : f >= 0})
          /\ last' = Quiet
          /\ UNCHANGED << client_fd, uart_fd, pending, inbound, hung_up,
                          uart_rx, gone >>
       \/ /\ \E in \in BridgeInputs :
             \E r \in {uart_bridge_iteration(BridgeCur, in)} :
                /\ client_fd' = r.client_fd
                /\ uart_fd' = r.uart_fd
                /\ fds' = r.fds
                /\ pending' = r.pending
                /\ inbound' = r.inbound
                /\ hung_up' = r.hung_up
                /\ uart_rx' = r.uart_rx
                /\ last' = r.did
                /\ gone' = (gone \/ r.did.disconnected)
          /\ task' = task
    /\ UNCHANGED << listen_fd, dap_vars >>

BridgePeerConnect ==
    /\ task = "loop" /\ pending < BRIDGE_BACKLOG
    /\ pending' = pending + 1
    /\ UNCHANGED << task, listen_fd, client_fd, uart_fd, fds, inbound,
                    hung_up, uart_rx, last, gone, dap_vars >>

ClientSend ==
    /\ task = "loop" /\ client_fd >= 0 /\ ~hung_up /\ inbound < MaxInbound
    /\ inbound' = inbound + 1
    /\ UNCHANGED << task, listen_fd, client_fd, uart_fd, fds, pending,
                    hung_up, uart_rx, last, gone, dap_vars >>

ClientHangUp ==
    /\ task = "loop" /\ client_fd >= 0 /\ ~hung_up
    /\ hung_up' = TRUE
    /\ UNCHANGED << task, listen_fd, client_fd, uart_fd, fds, pending,
                    inbound, uart_rx, last, gone, dap_vars >>

UartReceive ==
    /\ task = "loop" /\ uart_rx < MaxUartRx
    /\ uart_rx' = uart_rx + 1
    /\ UNCHANGED << task, listen_fd, client_fd, uart_fd, fds, pending,
                    inbound, hung_up, last, gone, dap_vars >>

NextBridge ==
    BridgeSetup \/ BridgeLoop \/ BridgePeerConnect \/ ClientSend
        \/ ClientHangUp \/ UartReceive

InitBridge == InitWith({})

SpecBridge == InitBridge /\ [][NextBridge]_vars

\* What every iteration the task can make from the current state ends in.
BridgeResults ==
    IF task = "loop"
    THEN {[in |-> in, b |-> uart_bridge_iteration(BridgeCur, in)] :
              in \in BridgeInputs}
    ELSE {}

\* C35: while a client is connected, a connection accept() hands over is
\* closed in the same block and client_fd and uart_fd stay as they are; an
\* iteration makes a connection the client only when there was none, and a
\* client is never replaced by another.
C35_SingleClient ==
    \A t \in BridgeResults :
        /\ \A n \in {handle_new_connection(BridgeCur, t.in.rs, t.in.acc,
                                           t.in.op)} :
              (client_fd >= 0 /\ "listen" \in t.in.rs /\ t.in.acc >= 0) =>
                  /\ t.in.acc \notin n.fds
                  /\ n.fds = fds
                  /\ n.client_fd = client_fd
                  /\ n.uart_fd = uart_fd
                  /\ n.did.dropped /\ ~n.did.client
        /\ t.b.did.client => (client_fd < 0 /\ t.b.client_fd = t.in.acc)
        /\ (client_fd >= 0 /\ t.b.client_fd >= 0) =>
              (t.b.client_fd = client_fd /\ t.b.uart_fd = uart_fd)

\* With a client connected, the last iteration accepted a further
\* connection and closed it.
C35_Witness ==
    /\ task = "loop" /\ client_fd >= 0
    /\ last.dropped /\ last.accepted >= 0
    /\ last.accepted \notin fds

\* recv() was called in iteration t and reported the end of the connection.
RecvSaysGone(t) ==
    /\ client_fd > 0 /\ "client" \in t.in.rs
    /\ \/ t.in.rc.ret = 0
       \/ t.in.rc.ret < 0 /\ t.in.rc.errno \in {"ECONNABORTED", "ENOTCONN"}

\* The iterations in which a connection waiting on the state b is accepted
\* and the UART opens.
ReconnectFrom(b) ==
    {uart_bridge_iteration(
         [b EXCEPT !.pending = 1, !.did = Quiet],
         [rs |-> {"listen"}, acc |-> p[1], op |-> p[2],
          rc |-> [ret |-> -1, errno |-> "EAGAIN"], rd |-> -1]) :
       p \in {q \in (BridgeFds \ b.fds) \X (BridgeFds \ b.fds) :
                 q[1] # q[2]}}

\* C36: in the select() loop client_fd >= 0 exactly when uart_fd >= 0, and
\* the task holds the listening socket and these two open and nothing else;
\* an accepted client comes with the UART opened; a failed open leaves
\* neither set; a disconnect seen by recv() closes both and sets both to
\* -1, and after it a connection that is accepted becomes the client.
C36_DescriptorPairing ==
    task = "loop" =>
        /\ (client_fd >= 0) <=> (uart_fd >= 0)
        /\ fds = {listen_fd} \cup {f \in {client_fd, uart_fd} : f >= 0}
        /\ \A t \in BridgeResults :
              /\ t.b.did.client =>
                    /\ t.b.client_fd = t.in.acc /\ t.b.uart_fd = t.in.op
                    /\ t.in.op >= 0
                    /\ {t.in.acc, t.in.op} \subseteq t.b.fds
              /\ t.b.did.open_failed =>
                    /\ t.b.client_fd = -1 /\ t.b.uart_fd = -1
                    /\ t.b.fds = fds
              /\ RecvSaysGone(t) =>
                    /\ t.b.did.disconnected
                    /\ t.b.client_fd = -1 /\ t.b.uart_fd = -1
                    /\ t.b.fds = fds \ {client_fd, uart_fd}
              /\ t.b.did.disconnected =>
                    /\ RecvSaysGone(t)
                    /\ ReconnectFrom(t.b) # {}
                    /\ \A n \in ReconnectFrom(t.b) :
                          n.did.client /\ n.client_fd >= 0 /\ n.uart_fd >= 0

\* A client's disconnect has been handled, and the last iteration made a
\* later connection the client.
C36_Witness ==
    /\ task = "loop" /\ gone
    /\ last.client /\ client_fd >= 0 /\ uart_fd >= 0
    /\ {client_fd, uart_fd} \subseteq fds

====
